---- MODULE Spec2Model ----
(***************************************************************************)
(* A model of the app_health aggregation pipeline:                         *)
(*   publishers -> component workers -> aggregator worker.                 *)
(*                                                                         *)
(* Time.  tokio's Instant is modelled relative to "now": of an Instant in  *)
(* the past the model keeps how long ago it was, of a deadline how long it *)
(* is until it is reached.  The code only ever subtracts Instants and      *)
(* compares the difference with debounce_delay, so both are kept saturated *)
(* (at debounce_delay, at 0).  One tick of the clock is TickMs             *)
(* milliseconds.                                                           *)
(***************************************************************************)
EXTENDS Integers, Sequences, FiniteSets, TLC

Min(a, b) == IF a <= b THEN a ELSE b
Max(a, b) == IF a >= b THEN a ELSE b

(***************************************************************************)
(* The two debounce delays, in milliseconds, and in ticks.  A tick is the  *)
(* shorter delay; the longer one is a multiple of it.                      *)
(***************************************************************************)
COMPONENT_DEBOUNCE_MS == 100
MIN_DEBOUNCE_INTERVAL == 1000
TickMs == COMPONENT_DEBOUNCE_MS
ComponentDelay == COMPONENT_DEBOUNCE_MS \div TickMs
AggregatorDelay == MIN_DEBOUNCE_INTERVAL \div TickMs

(***************************************************************************)
(* Bounds of the model.                                                    *)
(***************************************************************************)
\* Largest debounce_delay (in ticks) of the stand-alone debouncer.
MaxDelay == 4
\* Number of distinct attributes a signal may carry.
MaxAttributes == 1
\* Largest number of publishers the stand-alone ComponentState holds.
MaxStatePublishers == 2
\* Components and publishers the application creates in the pipeline.
MaxComponents == 1
MaxPublishers == 2
MaxPipelinePublishers == 1
\* Component handles (the original and its clones) alive at once.
MaxHandles == 2
\* Messages the application may have in flight (sent or about to be sent,
\* not yet received by a worker).  The mailboxes themselves are unbounded.
MaxInFlight == 2
\* Publish calls and slot writes counted of one burst.
MaxBurst == 3
\* Longest attribute name, in characters.
MaxNameLen == 2
\* The longest list of monitors: of monitor states the aggregate is computed
\* of by itself, and of components the application creates where only
\* reports are asked for.
MaxMonitors == 3

(***************************************************************************)
(* health.rs                                                               *)
(***************************************************************************)
NUM_HEALTH_STATES == 5
Nominal == 0
Degraded == 1
Critical == 2
Down == 3
Unrecoverable == 4
ALL_HEALTH_STATES == <<Nominal, Degraded, Critical, Down, Unrecoverable>>
Health == 0 .. (NUM_HEALTH_STATES - 1)

(***************************************************************************)
(* signal.rs is not part of the sources at hand: a Signal is a severity    *)
(* and a set of attributes, compared on both.                              *)
(***************************************************************************)
Attributes == 1 .. MaxAttributes
Signal == [state : Health, attributes : SUBSET Attributes]
NewSignal(h, attrs) == [state |-> h, attributes |-> attrs]
NominalSignal == NewSignal(Nominal, {})

(***************************************************************************)
(* filter.rs: a Filter is its bits, one per severity.                      *)
(***************************************************************************)
Pow2(i) == CASE i = 0 -> 1 [] i = 1 -> 2 [] i = 2 -> 4 [] i = 3 -> 8 [] i = 4 -> 16
FilterBit(h) == Pow2(h)
FilterALL ==
    FilterBit(Nominal) + FilterBit(Degraded) + FilterBit(Critical)
        + FilterBit(Down) + FilterBit(Unrecoverable)
FilterEmpty == 0
Filter == FilterEmpty .. FilterALL
\* filter.bits() & health_state_bit != 0
HasBit(filter, i) == (filter \div Pow2(i)) % 2 = 1

(***************************************************************************)
(* debouncer.rs                                                            *)
(*   since_last_fired  = min(now - last_fired, debounce_delay)             *)
(*   timer_remaining   = max(deadline of timer - now, 0)                   *)
(***************************************************************************)
NewDebouncer(delay) ==
    [debounce_delay |-> delay,
     since_last_fired |-> 0,
     timer_remaining |-> 0,
     timer_active |-> FALSE]

\* Mutant: the deferred branch forgets to arm the timer.
trigger_no_arm(d) ==
    IF d.since_last_fired >= d.debounce_delay
    THEN [deb |-> [d EXCEPT !.timer_active = FALSE, !.since_last_fired = 0],
          fired |-> TRUE]
    ELSE [deb |-> d, fired |-> FALSE]

\* Mutant: the immediate branch forgets last_fired = now.
trigger_keep_last_fired(d) ==
    IF d.since_last_fired >= d.debounce_delay
    THEN [deb |-> [d EXCEPT !.timer_active = FALSE], fired |-> TRUE]
    ELSE [deb |->
             IF ~d.timer_active
             THEN [d EXCEPT !.timer_remaining =
                                d.debounce_delay - d.since_last_fired,
                            !.timer_active = TRUE]
             ELSE d,
          fired |-> FALSE]

\* Mutant: every deferred trigger() resets the timer, a full delay ahead.
trigger_postpones(d) ==
    IF d.since_last_fired >= d.debounce_delay
    THEN [deb |-> [d EXCEPT !.timer_active = FALSE, !.since_last_fired = 0],
          fired |-> TRUE]
    ELSE [deb |-> [d EXCEPT !.timer_remaining = d.debounce_delay,
                            !.timer_active = TRUE],
          fired |-> FALSE]

\* Debouncer::trigger: the debouncer afterwards and the value returned.
trigger(d) ==
    LET elapsed == d.since_last_fired IN
    IF elapsed >= d.debounce_delay
    THEN [deb |-> [d EXCEPT !.timer_active = FALSE, !.since_last_fired = 0],
          fired |-> TRUE]
    ELSE [deb |->
             IF ~d.timer_active
             THEN LET delay == d.debounce_delay - elapsed IN
                  [d EXCEPT !.timer_remaining = delay, !.timer_active = TRUE]
             ELSE d,
          fired |-> FALSE]

\* DebounceReady::poll: the debouncer afterwards and whether it is Ready.
poll(d) ==
    IF ~d.timer_active
    THEN [deb |-> d, ready |-> FALSE]
    ELSE IF d.timer_remaining = 0
         THEN [deb |-> [d EXCEPT !.timer_active = FALSE,
                                 !.since_last_fired = 0],
               ready |-> TRUE]
         ELSE [deb |-> d, ready |-> FALSE]

\* The clock advances by one tick.
elapse(d) ==
    [d EXCEPT !.since_last_fired = Min(@ + 1, d.debounce_delay),
              !.timer_remaining = Max(@ - 1, 0)]

\* The armed timer has reached its deadline: tokio wakes the task polling it.
TimerDue(d) == d.timer_active /\ d.timer_remaining = 0

(***************************************************************************)
(* component_state.rs.  A HashMap<Signal, usize> is a function from its    *)
(* keys to their counts; an Option is None or Some(x).                      *)
(***************************************************************************)
None == <<>>
Some(x) == <<x>>
EmptyMap == [k \in {} |-> 0]

\* ComponentState::new
NewComponentState(name) ==
    [name |-> name,
     state |-> None,
     counts |-> [i \in Health |-> 0],
     signals |-> [i \in Health |-> EmptyMap]]

\* Mutant: the entry is set to 1, whatever it was.
entry_insert_one(map, key) ==
    [k \in DOMAIN map \cup {key} |-> IF k = key THEN 1 ELSE map[k]]

\* *map.entry(key).or_insert(0) += 1
entry_or_insert_inc(map, key) ==
    IF key \in DOMAIN map
    THEN [map EXCEPT ![key] = @ + 1]
    ELSE [k \in DOMAIN map \cup {key} |-> IF k = key THEN 1 ELSE map[k]]

\* Mutant: the last copy of a key is decremented to 0 and kept.
dec_or_remove_keeps_zero(map, key) ==
    IF key \in DOMAIN map
    THEN [map EXCEPT ![key] = @ - 1]
    ELSE map

\* dec_or_remove
dec_or_remove(map, key) ==
    IF key \in DOMAIN map
    THEN IF map[key] = 1
         THEN [k \in DOMAIN map \ {key} |-> map[k]]
         ELSE [map EXCEPT ![key] = @ - 1]
    ELSE map

\* Mutant: add_publisher_signal without `self.state.set(None)`.
add_publisher_signal_keeps_cache(cs, signal) ==
    LET index == signal.state IN
    [cs EXCEPT !.counts[index] = @ + 1,
               !.signals[index] = entry_or_insert_inc(@, signal)]

\* ComponentState::add_publisher_signal
add_publisher_signal(cs, signal) ==
    LET index == signal.state IN
    [cs EXCEPT !.state = None,
               !.counts[index] = @ + 1,
               !.signals[index] = entry_or_insert_inc(@, signal)]

\* remove_publisher_signal leaving counts as it is.
remove_publisher_signal_keeps_count(cs, signal) ==
    LET index == signal.state IN
    [cs EXCEPT !.state = None,
               !.signals[index] = dec_or_remove(@, signal)]

\* ComponentState::remove_publisher_signal.  counts is [usize; 5]: a count
\* below 0 stands for the underflow of `counts[index] -= 1`.
remove_publisher_signal(cs, signal) ==
    LET index == signal.state IN
    [cs EXCEPT !.state = None,
               !.counts[index] = @ - 1,
               !.signals[index] = dec_or_remove(@, signal)]

\* ALL_HEALTH_STATES.iter().rev().find_map(counts[hs] > 0).unwrap_or_default()
RECURSIVE rev_find_map(_, _)
rev_find_map(counts, i) ==
    IF i = 0
    THEN Nominal
    ELSE LET hs == ALL_HEALTH_STATES[i] IN
         IF counts[hs] > 0 THEN hs ELSE rev_find_map(counts, i - 1)

\* ComponentState::state: the value returned ...
state(cs) ==
    IF cs.state # None
    THEN cs.state[1]
    ELSE rev_find_map(cs.counts, Len(ALL_HEALTH_STATES))

\* ... and the ComponentState afterwards (the Cell holds the result).
state_cached(cs) == [cs EXCEPT !.state = Some(state(cs))]

\* Mutant: the filter is ignored.
make_report_unfiltered(cs, filter) ==
    [name |-> cs.name,
     state |-> state(cs),
     counts |-> cs.counts,
     signals |-> [i \in Health |->
                    {<<msg, cs.signals[i][msg]>> : msg \in DOMAIN cs.signals[i]}]]

\* ComponentState::make_report.  The Vec of each severity is collected in the
\* HashMap's iteration order, which is unspecified: it is kept as a set.
make_report(cs, filter) ==
    [name |-> cs.name,
     state |-> state(cs),
     counts |-> cs.counts,
     signals |-> [i \in Health |->
                    IF HasBit(filter, i)
                    THEN {<<msg, cs.signals[i][msg]>> :
                             msg \in DOMAIN cs.signals[i]}
                    ELSE {}]]

(***************************************************************************)
(* component.rs: the messages of a component mailbox.  `from` and `holds`  *)
(* are not part of the message: they name the publisher that sent it and   *)
(* the signal that publisher holds after the call that sent it (None once  *)
(* it is dropped), for the history variable `delivered`.                   *)
(***************************************************************************)
StartPublishing(signal, p, holds) ==
    [type |-> "StartPublishing", signal |-> signal, from |-> p, holds |-> holds]
ChangeHealth(old_health, new_health, p, holds) ==
    [type |-> "ChangeHealth", old |-> old_health, new |-> new_health,
     from |-> p, holds |-> holds]
StopPublishing(signal, p, holds) ==
    [type |-> "StopPublishing", signal |-> signal, from |-> p, holds |-> holds]
GetReport(filter, reply) ==
    [type |-> "GetReport", filter |-> filter, reply |-> reply]
PublisherMessages == {"StartPublishing", "ChangeHealth", "StopPublishing"}

\* Mutant: the GetReport arm consults the debouncer like the other arms.
component_message_report_triggers(cs, deb, msg) ==
    CASE msg.type = "StartPublishing" ->
            LET t == trigger(deb) IN
            [component_state |-> add_publisher_signal(cs, msg.signal),
             debouncer |-> t.deb, send_update |-> t.fired, report |-> None]
      [] msg.type = "ChangeHealth" ->
            LET t == trigger(deb) IN
            [component_state |->
                 add_publisher_signal(remove_publisher_signal(cs, msg.old),
                                      msg.new),
             debouncer |-> t.deb, send_update |-> t.fired, report |-> None]
      [] msg.type = "StopPublishing" ->
            LET t == trigger(deb) IN
            [component_state |-> remove_publisher_signal(cs, msg.signal),
             debouncer |-> t.deb, send_update |-> t.fired, report |-> None]
      [] msg.type = "GetReport" ->
            LET t == trigger(deb) IN
            [component_state |-> state_cached(cs),
             debouncer |-> t.deb, send_update |-> t.fired,
             report |-> Some(make_report(cs, msg.filter))]

\* Mutant: the StopPublishing arm does not consult the debouncer.
component_message_stop_silent(cs, deb, msg) ==
    CASE msg.type = "StartPublishing" ->
            LET t == trigger(deb) IN
            [component_state |-> add_publisher_signal(cs, msg.signal),
             debouncer |-> t.deb, send_update |-> t.fired, report |-> None]
      [] msg.type = "ChangeHealth" ->
            LET t == trigger(deb) IN
            [component_state |->
                 add_publisher_signal(remove_publisher_signal(cs, msg.old),
                                      msg.new),
             debouncer |-> t.deb, send_update |-> t.fired, report |-> None]
      [] msg.type = "StopPublishing" ->
            [component_state |-> remove_publisher_signal(cs, msg.signal),
             debouncer |-> deb, send_update |-> FALSE, report |-> None]
      [] msg.type = "GetReport" ->
            [component_state |-> state_cached(cs),
             debouncer |-> deb, send_update |-> FALSE,
             report |-> Some(make_report(cs, msg.filter))]

\* Mutant: the ChangeHealth arm forgets to remove the old signal.
component_message_change_adds(cs, deb, msg) ==
    CASE msg.type = "StartPublishing" ->
            LET t == trigger(deb) IN
            [component_state |-> add_publisher_signal(cs, msg.signal),
             debouncer |-> t.deb, send_update |-> t.fired, report |-> None]
      [] msg.type = "ChangeHealth" ->
            LET t == trigger(deb) IN
            [component_state |-> add_publisher_signal(cs, msg.new),
             debouncer |-> t.deb, send_update |-> t.fired, report |-> None]
      [] msg.type = "StopPublishing" ->
            LET t == trigger(deb) IN
            [component_state |-> remove_publisher_signal(cs, msg.signal),
             debouncer |-> t.deb, send_update |-> t.fired, report |-> None]
      [] msg.type = "GetReport" ->
            [component_state |-> state_cached(cs),
             debouncer |-> deb, send_update |-> FALSE,
             report |-> Some(make_report(cs, msg.filter))]

\* component_worker, the arms of `match msg`: the ComponentState and the
\* debouncer afterwards, send_update, and the report sent on response_tx.
component_message(cs, deb, msg) ==
    CASE msg.type = "StartPublishing" ->
            LET t == trigger(deb) IN
            [component_state |-> add_publisher_signal(cs, msg.signal),
             debouncer |-> t.deb, send_update |-> t.fired, report |-> None]
      [] msg.type = "ChangeHealth" ->
            LET t == trigger(deb) IN
            [component_state |->
                 add_publisher_signal(remove_publisher_signal(cs, msg.old),
                                      msg.new),
             debouncer |-> t.deb, send_update |-> t.fired, report |-> None]
      [] msg.type = "StopPublishing" ->
            LET t == trigger(deb) IN
            [component_state |-> remove_publisher_signal(cs, msg.signal),
             debouncer |-> t.deb, send_update |-> t.fired, report |-> None]
      [] msg.type = "GetReport" ->
            [component_state |-> state_cached(cs),
             debouncer |-> deb, send_update |-> FALSE,
             report |-> Some(make_report(cs, msg.filter))]

\* Mutant: `&&` for `||`.
should_publish_and(new_state, health_state) ==
    new_state # health_state /\ new_state # Nominal

\* Mutant: every update is published.
should_publish_always(new_state, health_state) == TRUE

\* Mutant: only a changed severity is published.
should_publish_changed(new_state, health_state) ==
    new_state # health_state

\* component_worker: `if new_state != health_state || new_state != Nominal`
should_publish(new_state, health_state) ==
    new_state # health_state \/ new_state # Nominal

(***************************************************************************)
(* publisher.rs: the message(s) a call sends once the weak sender has been *)
(* upgraded.                                                               *)
(***************************************************************************)
\* Mutant: a change is sent as a stop followed by a start.
change_signal_stop_start(p, old_signal, new_signal) ==
    <<StopPublishing(old_signal, p, Some(new_signal)),
      StartPublishing(new_signal, p, Some(new_signal))>>

\* Publisher::change_signal
change_signal(p, old_signal, new_signal) ==
    <<ChangeHealth(old_signal, new_signal, p, Some(new_signal))>>

(***************************************************************************)
(* aggregator.rs: the messages of the aggregator mailbox.  A               *)
(* ComponentMonitor is the component it watches: its weak sender is that   *)
(* component's mailbox, its health_rx that component's broadcast slot.     *)
(***************************************************************************)
ComponentCreated(monitor) == [type |-> "ComponentCreated", monitor |-> monitor]
ComponentDropped == [type |-> "ComponentDropped"]
ComponentHealthChanged == [type |-> "ComponentHealthChanged"]
AggGetReport(filter) == [type |-> "GetReport", filter |-> filter]

\* get_aggregate_health_state, over the states the monitors show.
RECURSIVE get_aggregate_health_state(_)
get_aggregate_health_state(states) ==
    IF states = <<>>
    THEN Nominal
    ELSE LET rest == get_aggregate_health_state(SubSeq(states, 1, Len(states) - 1))
             component_state == states[Len(states)]
         IN IF component_state > rest THEN component_state ELSE rest

\* The filters the application asks reports with.
PipelineFilters == {FilterALL}
ComponentFilters == {FilterALL, FilterBit(Critical)}
\* The signals the application publishes.
PublishedSignals ==
    {NominalSignal, NewSignal(Degraded, {}), NewSignal(Critical, Attributes)}
PipelineSignals == {NominalSignal, NewSignal(Critical, Attributes)}
PipelinePublishers == 1 .. MaxPipelinePublishers

Components == 1 .. MaxComponents
\* All components there may be: the state is kept for each of them.
AllComponents == 1 .. Max(MaxMonitors, MaxComponents)
Publishers == 1 .. MaxPublishers

VARIABLES
    cstate,          \* the stand-alone ComponentState
    cs_obs,          \* the last call made on it and what it returned
    dbn,             \* the stand-alone Debouncer
    dbn_obs,         \* what was observed of it: the last call and the history
    \* Aggregator and aggregator_worker
    aggregator_tx,   \* strong senders of the aggregator mailbox (the handle)
    aggregator_rx,   \* the aggregator mailbox
    agg_worker,      \* "running", "gathering" (reports), "awaiting" (a
                     \* monitor's report) or "exited"
    monitors,        \* aggregator_worker's monitors
    agg_debouncer,   \* aggregator_worker's debouncer
    agg_health_tx,   \* the overall broadcast slot
    gather,          \* the GetReport being served by aggregator_worker
    \* Component and component_worker, per component
    component,       \* its handles: [handles, dropping]
    component_rx,    \* its mailbox
    worker,          \* "none" (not created), "running" or "exited"
    component_state, \* component_worker's component_state
    health_state,    \* component_worker's health_state
    debouncer,       \* component_worker's debouncer
    health_tx,       \* its broadcast slot
    \* Publisher, per publisher: [status, component, signal, channel]
    publisher,
    \* history
    delivered,       \* per publisher: the signal the worker holds for it
    since_msg,       \* per component: ticks since its worker last processed
                     \* a publisher message (saturated at ComponentDelay)
    calls,           \* the application's report()/reports() calls in progress
    last,            \* what the last step did
    obs              \* what the application's observers have seen

svars == <<cstate, cs_obs>>
dvars == <<dbn, dbn_obs>>
aggvars ==
    <<aggregator_tx, aggregator_rx, agg_worker, monitors, agg_debouncer,
      agg_health_tx, gather>>
compvars ==
    <<component, component_rx, worker, component_state, health_state,
      debouncer, health_tx>>
pvars ==
    <<aggvars, compvars, publisher, delivered, since_msg, calls, last, obs>>
vars == <<svars, dvars, pvars>>

(***************************************************************************)
(* The stand-alone ComponentState: the calls the component worker makes on *)
(* it, with any signal and any filter.  A signal is removed only when it   *)
(* is present (the worker pairs every remove with an earlier add).         *)
(***************************************************************************)
SInit0 ==
    /\ cstate = NewComponentState("c")
    /\ cs_obs = [op |-> "new"]

Total(counts) ==
    counts[Nominal] + counts[Degraded] + counts[Critical] + counts[Down]
        + counts[Unrecoverable]

SAdd ==
    /\ Total(cstate.counts) < MaxStatePublishers
    /\ \E signal \in Signal : cstate' = add_publisher_signal(cstate, signal)
    /\ cs_obs' = [op |-> "add"]
    /\ UNCHANGED <<dvars, pvars>>

SRemove ==
    /\ \E signal \in Signal :
          /\ signal \in DOMAIN cstate.signals[signal.state]
          /\ cstate' = remove_publisher_signal(cstate, signal)
    /\ cs_obs' = [op |-> "remove"]
    /\ UNCHANGED <<dvars, pvars>>

SState ==
    /\ cstate' = state_cached(cstate)
    /\ cs_obs' = [op |-> "state", result |-> state(cstate)]
    /\ UNCHANGED <<dvars, pvars>>

SMakeReport ==
    /\ \E filter \in Filter :
          cs_obs' = [op |-> "make_report", filter |-> filter,
                     report |-> make_report(cstate, filter)]
    /\ cstate' = state_cached(cstate)
    /\ UNCHANGED <<dvars, pvars>>

SNext == SAdd \/ SRemove \/ SState \/ SMakeReport

(***************************************************************************)
(* The stand-alone debouncer: trigger() calls and ready() polls at         *)
(* arbitrary non-decreasing times.  dbn_obs is history, not program state: *)
(*   since_fire  ticks since the last fire or the construction (saturated) *)
(*   pending     a trigger() returned false and nothing has fired since    *)
(*   late        the clock advanced while the armed timer was due, i.e.    *)
(*               ready() was not polled when the timer woke its task       *)
(*   op, fired   the last call and what it returned                        *)
(*   gap, was_pending   since_fire and pending when that call was made     *)
(***************************************************************************)
DInit0 ==
    /\ \E delay \in 1 .. MaxDelay : dbn = NewDebouncer(delay)
    /\ dbn_obs = [since_fire |-> 0, pending |-> FALSE, late |-> FALSE,
                  op |-> "new", fired |-> FALSE, gap |-> 0,
                  was_pending |-> FALSE]

DTrigger ==
    LET r == trigger(dbn) IN
    /\ UNCHANGED <<svars, pvars>>
    /\ dbn' = r.deb
    /\ dbn_obs' = [since_fire |-> IF r.fired THEN 0 ELSE dbn_obs.since_fire,
                   pending |-> ~r.fired,
                   late |-> IF r.fired THEN FALSE ELSE dbn_obs.late,
                   op |-> "trigger", fired |-> r.fired,
                   gap |-> dbn_obs.since_fire,
                   was_pending |-> dbn_obs.pending]

DPoll ==
    LET r == poll(dbn) IN
    /\ UNCHANGED <<svars, pvars>>
    /\ dbn' = r.deb
    /\ dbn_obs' = [since_fire |-> IF r.ready THEN 0 ELSE dbn_obs.since_fire,
                   pending |-> IF r.ready THEN FALSE ELSE dbn_obs.pending,
                   late |-> IF r.ready THEN FALSE ELSE dbn_obs.late,
                   op |-> "poll", fired |-> r.ready,
                   gap |-> dbn_obs.since_fire,
                   was_pending |-> dbn_obs.pending]

DTick ==
    /\ UNCHANGED <<svars, pvars>>
    /\ dbn' = elapse(dbn)
    /\ dbn_obs' = [dbn_obs EXCEPT
                      !.since_fire = Min(@ + 1, dbn.debounce_delay),
                      !.late = @ \/ TimerDue(dbn),
                      !.op = "tick", !.fired = FALSE]

DNext == DTrigger \/ DPoll \/ DTick

(***************************************************************************)
(* The pipeline.                                                           *)
(***************************************************************************)
NoEvent == [kind |-> "none"]
NoGather == [filter |-> FilterEmpty, index |-> 0, reports |-> <<>>, reply |-> None]
\* What a call under way borrows: nothing, a handle of component c
\* (Component::publisher takes &self) or publisher q (Clone takes &self).
NoBorrow == <<>>
BorrowsComponent(c) == <<"component", c>>
BorrowsPublisher(q) == <<"publisher", q>>

NoPublisher ==
    [status |-> "none", component |-> 0, signal |-> NominalSignal,
     channel |-> <<>>, borrows |-> NoBorrow]

RECURSIVE SumOver(_, _)
SumOver(f, S) ==
    IF S = {} THEN 0
    ELSE LET x == CHOOSE y \in S : TRUE IN f[x] + SumOver(f, S \ {x})

\* Mutant: a publisher holds a strong sender as long as it lives.
OtherSenders_strong_publishers(c) ==
    component[c].handles + component[c].dropping
    + Cardinality({p \in Publishers :
                      /\ publisher[p].component = c
                      /\ publisher[p].status = "live" \/ publisher[p].channel # <<>>})

\* Strong senders of component c's mailbox other than the one the aggregator
\* holds while it awaits a report: the Component handles (a handle being
\* dropped keeps its sender until its fields are dropped) and the senders
\* publishers have upgraded and not yet dropped.
OtherSenders(c) ==
    component[c].handles + component[c].dropping
    + Cardinality({p \in Publishers :
                      publisher[p].component = c /\ publisher[p].channel # <<>>})

\* mpsc strong_count() of component c's mailbox.
strong_count(c) ==
    OtherSenders(c)
    + (IF agg_worker = "awaiting" /\ monitors[gather.index] = c THEN 1 ELSE 0)

\* Mutant: the weak senders are strong ones, an upgrade always succeeds.
upgrade_always(c) == TRUE

\* WeakUnboundedSender::upgrade succeeds
upgrade(c) == strong_count(c) > 0

\* ComponentMonitor::alive
alive(monitor) == strong_count(monitor) > 0

\* Mutant: a monitor is kept only while a handle of its component is held.
retain_alive_held(ms) == SelectSeq(ms, LAMBDA m : component[m].handles > 0)

\* monitors.retain(ComponentMonitor::alive)
retain_alive(ms) == SelectSeq(ms, alive)

\* Mutant: the monitors of components that are gone are left out.
monitor_states_alive(ms) ==
    [i \in 1 .. Len(retain_alive(ms)) |-> health_tx[retain_alive(ms)[i]]]

\* ComponentMonitor::state of each monitor
monitor_states(ms) == [i \in 1 .. Len(ms) |-> health_tx[ms[i]]]

\* Messages the application has sent, or is about to send, that no worker
\* has received yet.
InFlight ==
    Len(aggregator_rx)
    + SumOver([c \in AllComponents |-> Len(component_rx[c])], AllComponents)
    + SumOver([p \in Publishers |-> Len(publisher[p].channel)], Publishers)

(***************************************************************************)
(* The application's observers.  A specification that follows none has     *)
(* obs = NoObserver throughout.                                            *)
(*                                                                         *)
(* Watchers: the read ends (tokio watch::Receiver) of the broadcast slots  *)
(* that the application awaits with changed(): that of the Aggregator      *)
(* handle (index AggregatorRx) and that of a handle of each component.     *)
(* Of a read end the model keeps `changed`, whether the slot's version     *)
(* differs from the version the read end has seen (watch::Sender::send     *)
(* advances the version on every call, whatever the value), and `seen`,    *)
(* the slot's value when the read end last marked the version seen: at     *)
(* its creation or when changed() last completed.                          *)
(*                                                                         *)
(* Publish observer: the publisher calls that sent a signal since the      *)
(* clock last advanced (a burst), the writes of the slot since the first   *)
(* of them, and the publishers that have published Degraded.               *)
(***************************************************************************)
AggregatorRx == 0
Watched == {AggregatorRx} \cup Components
NoObserver == [kind |-> "none"]
Watchers ==
    [kind |-> "watch",
     rx |-> [w \in Watched |-> [changed |-> FALSE, seen |-> Nominal]]]
PublishObserver ==
    [kind |-> "publish", open |-> FALSE, len |-> 0, writes |-> 0,
     degraded |-> {}]

\* Publisher p's publish(new_signal) was called; `changed`: with a signal
\* other than the one it held, so that a message is sent.  The registration
\* of a new publisher counts as its publishing the nominal signal.
ObsPublish(o, p, new_signal, changed) ==
    IF o.kind = "publish" /\ changed
    THEN LET d == IF new_signal.state = Degraded
                  THEN o.degraded \cup {p} ELSE o.degraded
         IN IF o.open
            THEN [o EXCEPT !.len = Min(@ + 1, MaxBurst), !.degraded = d]
            ELSE [o EXCEPT !.open = TRUE, !.len = 1, !.writes = 0,
                           !.degraded = d]
    ELSE o

\* The clock advanced.
ObsTick(o) ==
    IF o.kind = "publish" THEN [o EXCEPT !.open = FALSE] ELSE o

\* watch::Sender::receiver_count of the slot w: the read ends of the overall
\* slot is the one in the Aggregator handle, those of a component's slot are
\* the ones in its handles and in its monitor, which is in the ComponentCreated
\* message or in the aggregator worker's list.  watch::Sender::send fails,
\* and leaves the slot as it is, when there is none.
receiver_count(w) ==
    IF w = AggregatorRx
    THEN aggregator_tx
    ELSE component[w].handles + component[w].dropping
         + Cardinality({i \in 1 .. Len(monitors) : monitors[i] = w})
         + Cardinality({i \in 1 .. Len(aggregator_rx) :
                           /\ aggregator_rx[i].type = "ComponentCreated"
                           /\ aggregator_rx[i].monitor = w})

\* health_tx.send(..) succeeded on the slot that w reads (written = TRUE).
ObsWrite(o, w, written) ==
    CASE o.kind = "watch" /\ written -> [o EXCEPT !.rx[w].changed = TRUE]
      [] o.kind = "publish" /\ written ->
            [o EXCEPT !.writes = Min(@ + 1, MaxBurst)]
      [] OTHER -> o

PInit0 ==
    /\ aggregator_tx = 1
    /\ aggregator_rx = <<>>
    /\ agg_worker = "running"
    /\ monitors = <<>>
    /\ agg_debouncer = NewDebouncer(AggregatorDelay)
    /\ agg_health_tx = Nominal
    /\ gather = NoGather
    /\ component = [c \in AllComponents |-> [handles |-> 0, dropping |-> 0]]
    /\ component_rx = [c \in AllComponents |-> <<>>]
    /\ worker = [c \in AllComponents |-> "none"]
    /\ component_state = [c \in AllComponents |-> NewComponentState(c)]
    /\ health_state = [c \in AllComponents |-> Nominal]
    /\ debouncer = [c \in AllComponents |-> NewDebouncer(ComponentDelay)]
    /\ health_tx = [c \in AllComponents |-> Nominal]
    /\ publisher = [p \in Publishers |-> NoPublisher]
    /\ delivered = [p \in Publishers |-> None]
    /\ since_msg = [c \in AllComponents |-> 0]
    /\ calls = [report |-> None, reports |-> None]
    /\ last = NoEvent

\* Component::new without the ComponentCreated message.
ComponentNew_unannounced(c) ==
    /\ aggregator_tx > 0
    /\ worker[c] = "none"
    /\ \A b \in AllComponents : b < c => worker[b] # "none"
    /\ InFlight < MaxInFlight
    /\ worker' = [worker EXCEPT ![c] = "running"]
    /\ component' = [component EXCEPT ![c] = [handles |-> 1, dropping |-> 0]]
    /\ component_state' = [component_state EXCEPT ![c] = NewComponentState(c)]
    /\ health_state' = [health_state EXCEPT ![c] = Nominal]
    /\ debouncer' = [debouncer EXCEPT ![c] = NewDebouncer(ComponentDelay)]
    /\ health_tx' = [health_tx EXCEPT ![c] = Nominal]
    /\ since_msg' = [since_msg EXCEPT ![c] = 0]
    /\ aggregator_rx' = aggregator_rx
    /\ last' = NoEvent
    /\ UNCHANGED <<svars, dvars, obs, aggregator_tx, agg_worker, monitors,
                   agg_debouncer, agg_health_tx, gather, component_rx,
                   publisher, delivered, calls>>

(***************************************************************************)
(* The application: Aggregator, Component and Publisher calls.             *)
(***************************************************************************)
\* Aggregator::component -> Component::new
ComponentNew(c) ==
    /\ aggregator_tx > 0
    /\ worker[c] = "none"
    /\ \A b \in AllComponents : b < c => worker[b] # "none"
    /\ InFlight < MaxInFlight
    /\ worker' = [worker EXCEPT ![c] = "running"]
    /\ component' = [component EXCEPT ![c] = [handles |-> 1, dropping |-> 0]]
    /\ component_state' = [component_state EXCEPT ![c] = NewComponentState(c)]
    /\ health_state' = [health_state EXCEPT ![c] = Nominal]
    /\ debouncer' = [debouncer EXCEPT ![c] = NewDebouncer(ComponentDelay)]
    /\ health_tx' = [health_tx EXCEPT ![c] = Nominal]
    /\ since_msg' = [since_msg EXCEPT ![c] = 0]
    /\ aggregator_rx' = Append(aggregator_rx, ComponentCreated(c))
    /\ last' = NoEvent
    /\ UNCHANGED <<svars, dvars, obs, aggregator_tx, agg_worker, monitors,
                   agg_debouncer, agg_health_tx, gather, component_rx,
                   publisher, delivered, calls>>

\* Clone for Component
\* Mutant: a clone registers with the aggregator as a new component does.
ComponentClone_registers(c) ==
    /\ component[c].handles > 0
    /\ component[c].handles + component[c].dropping < MaxHandles
    /\ InFlight < MaxInFlight
    /\ component' = [component EXCEPT ![c].handles = @ + 1]
    /\ aggregator_rx' =
          IF aggregator_tx > 0
          THEN Append(aggregator_rx, ComponentCreated(c))
          ELSE aggregator_rx
    /\ last' = NoEvent
    /\ UNCHANGED <<svars, dvars, obs, aggregator_tx, agg_worker, monitors,
                   agg_debouncer, agg_health_tx, gather, component_rx, worker,
                   component_state, health_state, debouncer, health_tx,
                   publisher, delivered, since_msg, calls>>

ComponentClone(c) ==
    /\ component[c].handles > 0
    /\ component[c].handles + component[c].dropping < MaxHandles
    /\ component' = [component EXCEPT ![c].handles = @ + 1]
    /\ last' = NoEvent
    /\ UNCHANGED <<svars, dvars, obs, aggvars, component_rx, worker,
                   component_state, health_state, debouncer, health_tx,
                   publisher, delivered, since_msg, calls>>

\* A handle that a call borrows (Component::report, Component::publisher) is
\* not dropped during the call; the calls under way may all borrow the same
\* handle.
Borrowed(c) ==
    IF \/ calls.report # None /\ calls.report[1].component = c
       \/ \E p \in Publishers : publisher[p].borrows = BorrowsComponent(c)
    THEN 1 ELSE 0

\* Publisher q is not borrowed by a clone() under way.
Unborrowed(q) ==
    \A p \in Publishers : publisher[p].borrows # BorrowsPublisher(q)

\* Drop for Component: drop() runs (the hint to the aggregator) ...
ComponentDropBegin(c) ==
    /\ component[c].handles > Borrowed(c)
    /\ InFlight < MaxInFlight
    /\ component' = [component EXCEPT ![c].handles = @ - 1,
                                      ![c].dropping = @ + 1]
    /\ aggregator_rx' =
          IF aggregator_tx > 0
          THEN Append(aggregator_rx, ComponentDropped)
          ELSE aggregator_rx
    /\ last' = NoEvent
    /\ UNCHANGED <<svars, dvars, obs, aggregator_tx, agg_worker, monitors,
                   agg_debouncer, agg_health_tx, gather, component_rx, worker,
                   component_state, health_state, debouncer, health_tx,
                   publisher, delivered, since_msg, calls>>

\* ... and then the fields are dropped, component_tx among them.
ComponentDropEnd(c) ==
    /\ component[c].dropping > 0
    /\ component' = [component EXCEPT ![c].dropping = @ - 1]
    /\ last' = NoEvent
    /\ UNCHANGED <<svars, dvars, obs, aggvars, component_rx, worker,
                   component_state, health_state, debouncer, health_tx,
                   publisher, delivered, since_msg, calls>>

\* The handles and publishers of component c that Publisher::new can be
\* reached through: Component::publisher on a handle, Clone on a publisher.
PublisherSources(c) ==
    (IF component[c].handles > 0 THEN {BorrowsComponent(c)} ELSE {})
    \cup {BorrowsPublisher(q) : q \in
              {r \in Publishers : /\ publisher[r].status = "live"
                                  /\ publisher[r].component = c
                                  /\ publisher[r].channel = <<>>}}

\* Mutant: Clone for Publisher copies the source's signal.
PublisherNew_copies_signal(p, c) ==
    /\ publisher[p].status = "none"
    /\ \A q \in Publishers : q < p => publisher[q].status # "none"
    /\ InFlight < MaxInFlight
    /\ \E source \in PublisherSources(c) :
          LET copied == IF source[1] = "publisher"
                        THEN publisher[source[2]].signal
                        ELSE NominalSignal
          IN
          /\ publisher' = [publisher EXCEPT ![p] =
                [status |-> "live", component |-> c,
                 signal |-> copied,
                 channel |-> IF upgrade(c)
                             THEN <<StartPublishing(copied, p, Some(copied))>>
                             ELSE <<>>,
                 borrows |-> IF upgrade(c) THEN source ELSE NoBorrow]]
          /\ last' = [kind |-> "new", publisher |-> p, source |-> source]
    /\ obs' = ObsPublish(obs, p, NominalSignal, upgrade(c))
    /\ UNCHANGED <<svars, dvars, aggvars, compvars, delivered, since_msg,
                   calls>>

\* Component::publisher or Clone for Publisher -> Publisher::new: the weak
\* sender is upgraded; the message is sent by PublisherSend.  When the
\* upgrade fails the call returns at once and borrows nothing any longer.
PublisherNew(p, c) ==
    /\ publisher[p].status = "none"
    /\ \A q \in Publishers : q < p => publisher[q].status # "none"
    /\ InFlight < MaxInFlight
    /\ \E source \in PublisherSources(c) :
          /\ publisher' = [publisher EXCEPT ![p] =
                [status |-> "live", component |-> c, signal |-> NominalSignal,
                 channel |-> IF upgrade(c)
                             THEN <<StartPublishing(NominalSignal, p,
                                                    Some(NominalSignal))>>
                             ELSE <<>>,
                 borrows |-> IF upgrade(c) THEN source ELSE NoBorrow]]
          /\ last' = [kind |-> "new", publisher |-> p, source |-> source]
    /\ obs' = ObsPublish(obs, p, NominalSignal, upgrade(c))
    /\ UNCHANGED <<svars, dvars, aggvars, compvars, delivered, since_msg,
                   calls>>

\* Mutant: change_signal without `if new_signal != self.signal`.
PublisherPublish_unconditional(p, new_signal) ==
    /\ publisher[p].status = "live"
    /\ publisher[p].channel = <<>>
    /\ Unborrowed(p)
    /\ InFlight < MaxInFlight
    /\ publisher' = [publisher EXCEPT
          ![p].signal = new_signal,
          ![p].channel =
              IF upgrade(publisher[p].component)
              THEN change_signal(p, publisher[p].signal, new_signal)
              ELSE <<>>]
    /\ last' = [kind |-> "publish", publisher |-> p,
                changed |-> new_signal # publisher[p].signal]
    /\ obs' = ObsPublish(obs, p, new_signal, new_signal # publisher[p].signal)
    /\ UNCHANGED <<svars, dvars, aggvars, compvars, delivered, since_msg,
                   calls>>

\* Publisher::publish -> change_signal, up to the upgrade of the weak sender.
PublisherPublish(p, new_signal) ==
    /\ publisher[p].status = "live"
    /\ publisher[p].channel = <<>>
    /\ Unborrowed(p)
    /\ InFlight < MaxInFlight
    /\ IF new_signal # publisher[p].signal
       THEN LET old_signal == publisher[p].signal IN
            publisher' = [publisher EXCEPT
               ![p].signal = new_signal,
               ![p].channel =
                   IF upgrade(publisher[p].component)
                   THEN change_signal(p, old_signal, new_signal)
                   ELSE <<>>]
       ELSE UNCHANGED publisher
    /\ last' = [kind |-> "publish", publisher |-> p,
                changed |-> new_signal # publisher[p].signal]
    /\ obs' = ObsPublish(obs, p, new_signal, new_signal # publisher[p].signal)
    /\ UNCHANGED <<svars, dvars, aggvars, compvars, delivered, since_msg,
                   calls>>

\* Drop for Publisher, up to the upgrade of the weak sender.
\* Mutant: StopPublishing carries the signal put in place of the publisher's.
PublisherDrop_stops_nominal(p) ==
    /\ publisher[p].status = "live"
    /\ publisher[p].channel = <<>>
    /\ Unborrowed(p)
    /\ InFlight < MaxInFlight
    /\ publisher' = [publisher EXCEPT
          ![p].status = "dropped",
          ![p].signal = NominalSignal,
          ![p].channel =
              IF upgrade(publisher[p].component)
              THEN <<StopPublishing(NominalSignal, p, None)>>
              ELSE <<>>]
    /\ last' = NoEvent
    /\ UNCHANGED <<svars, dvars, obs, aggvars, compvars, delivered, since_msg,
                   calls>>

PublisherDrop(p) ==
    /\ publisher[p].status = "live"
    /\ publisher[p].channel = <<>>
    /\ Unborrowed(p)
    /\ InFlight < MaxInFlight
    /\ publisher' = [publisher EXCEPT
          ![p].status = "dropped",
          ![p].signal = NominalSignal,
          ![p].channel =
              IF upgrade(publisher[p].component)
              THEN <<StopPublishing(publisher[p].signal, p, None)>>
              ELSE <<>>]
    /\ last' = NoEvent
    /\ UNCHANGED <<svars, dvars, obs, aggvars, compvars, delivered, since_msg,
                   calls>>

\* channel.send(..) on the upgraded sender, which is then dropped.
PublisherSend(p) ==
    /\ publisher[p].channel # <<>>
    /\ LET c == publisher[p].component IN
       component_rx' = [component_rx EXCEPT ![c] = @ \o publisher[p].channel]
    /\ publisher' = [publisher EXCEPT ![p].channel = <<>>,
                                      ![p].borrows = NoBorrow]
    /\ last' = NoEvent
    /\ UNCHANGED <<svars, dvars, obs, aggvars, component, worker, component_state,
                   health_state, debouncer, health_tx, delivered, since_msg,
                   calls>>

\* Component::report, up to the await of the reply.
ReportCall(c, filter) ==
    /\ calls.report = None
    /\ component[c].handles > 0
    /\ InFlight < MaxInFlight
    /\ component_rx' = [component_rx EXCEPT ![c] =
                           Append(@, GetReport(filter, "app"))]
    /\ calls' = [calls EXCEPT !.report =
                    Some([component |-> c, filter |-> filter])]
    /\ last' = NoEvent
    /\ UNCHANGED <<svars, dvars, obs, aggvars, component, worker, component_state,
                   health_state, debouncer, health_tx, publisher, delivered,
                   since_msg>>

\* Aggregator::reports, up to the await of the reply.  `dropped` and `held`
\* are history: the components all of whose handles had been dropped, and
\* those with a handle, when the call was made.
ReportsCall(filter) ==
    /\ calls.reports = None
    /\ aggregator_tx > 0
    /\ InFlight < MaxInFlight
    /\ aggregator_rx' = Append(aggregator_rx, AggGetReport(filter))
    /\ calls' = [calls EXCEPT !.reports =
          Some([filter |-> filter,
                dropped |-> {c \in AllComponents :
                               /\ worker[c] # "none"
                               /\ component[c].handles = 0
                               /\ component[c].dropping = 0},
                held |-> {c \in AllComponents : component[c].handles > 0}])]
    /\ last' = NoEvent
    /\ UNCHANGED <<svars, dvars, obs, aggregator_tx, agg_worker, monitors,
                   agg_debouncer, agg_health_tx, gather, compvars, publisher,
                   delivered, since_msg>>

\* The slot read end w reads: its value, whether its writer is gone (the
\* worker owns health_tx and drops it when it exits), and whether the
\* application has a handle free to call changed(&mut self) on.
SlotOf(w) == IF w = AggregatorRx THEN agg_health_tx ELSE health_tx[w]
Closed(w) ==
    IF w = AggregatorRx THEN agg_worker = "exited" ELSE worker[w] = "exited"
HandleFree(w) ==
    IF w = AggregatorRx
    THEN aggregator_tx > 0 /\ calls.reports = None
    ELSE component[w].handles > Borrowed(w)

\* Mutant: an unchanged slot is reported as an error.
changed_or_err(rx, closed) ==
    IF rx.changed THEN "ok" ELSE "err"

\* watch::Receiver::changed, as Component::changed and Aggregator::changed
\* map it: Ok when the slot's version is not the one seen (which is then
\* marked seen), else Err when the writer is gone, else the call stays
\* pending.
changed(rx, closed) ==
    IF rx.changed THEN "ok"
    ELSE IF closed THEN "err"
    ELSE "pending"

\* Component::changed / Aggregator::changed completes (a call that stays
\* pending is no step).  `previous` is the value the read end saw last.
ChangedCall(w) ==
    /\ obs.kind = "watch"
    /\ HandleFree(w)
    /\ changed(obs.rx[w], Closed(w)) # "pending"
    /\ obs' = IF changed(obs.rx[w], Closed(w)) = "ok"
              THEN [obs EXCEPT !.rx[w] =
                       [changed |-> FALSE, seen |-> SlotOf(w)]]
              ELSE obs
    /\ last' = [kind |-> "changed", handle |-> w,
                result |-> changed(obs.rx[w], Closed(w)),
                previous |-> obs.rx[w].seen, value |-> SlotOf(w),
                closed |-> Closed(w)]
    /\ UNCHANGED <<svars, dvars, aggvars, compvars, publisher, delivered,
                   since_msg, calls>>

\* The Aggregator handle is dropped.
AggregatorDrop ==
    /\ aggregator_tx > 0
    /\ calls.reports = None
    /\ aggregator_tx' = 0
    /\ last' = NoEvent
    /\ UNCHANGED <<svars, dvars, obs, aggregator_rx, agg_worker, monitors,
                   agg_debouncer, agg_health_tx, gather, compvars, publisher,
                   delivered, since_msg, calls>>

(***************************************************************************)
(* component_worker                                                        *)
(***************************************************************************)
\* Mutant: the update is given up when the aggregator cannot be notified.
ComponentUpdate_needs_aggregator(c, cs, send_update, ev) ==
    LET new_state == state(cs)
        publish == /\ send_update
                   /\ should_publish(new_state, health_state[c])
                   /\ aggregator_tx > 0
    IN
    /\ component_state' = [component_state EXCEPT ![c] =
                              IF send_update THEN state_cached(cs) ELSE cs]
    /\ health_state' = [health_state EXCEPT ![c] =
                           IF publish THEN new_state ELSE @]
    /\ health_tx' = [health_tx EXCEPT ![c] =
                        IF publish /\ receiver_count(c) > 0
                        THEN new_state ELSE @]
    /\ aggregator_rx' =
          IF publish
          THEN Append(aggregator_rx, ComponentHealthChanged)
          ELSE aggregator_rx
    /\ last' = [kind |-> "component", component |-> c, type |-> ev.type,
                report |-> ev.report, send_update |-> send_update,
                new_state |-> new_state, health_state |-> health_state[c],
                published |-> publish, notified |-> publish]
    /\ obs' = ObsWrite(obs, c, publish /\ receiver_count(c) > 0)

\* ComponentUpdate sending the notification without the slot write before it.
ComponentUpdate_notifies_unwritten(c, cs, send_update, ev) ==
    LET new_state == state(cs)
        publish == send_update /\ should_publish(new_state, health_state[c])
        notify == publish /\ aggregator_tx > 0
    IN
    /\ component_state' = [component_state EXCEPT ![c] =
                              IF send_update THEN state_cached(cs) ELSE cs]
    /\ health_state' = [health_state EXCEPT ![c] =
                           IF publish THEN new_state ELSE @]
    /\ health_tx' = health_tx
    /\ aggregator_rx' =
          IF notify
          THEN Append(aggregator_rx, ComponentHealthChanged)
          ELSE aggregator_rx
    /\ last' = [kind |-> "component", component |-> c, type |-> ev.type,
                report |-> ev.report, send_update |-> send_update,
                new_state |-> new_state, health_state |-> health_state[c],
                published |-> publish, notified |-> notify]
    /\ obs' = obs

\* The end of an iteration of the loop, `if send_update { .. }`, after the
\* select! arm left the ComponentState cs; ev describes the arm.
ComponentUpdate(c, cs, send_update, ev) ==
    LET new_state == state(cs)
        publish == send_update /\ should_publish(new_state, health_state[c])
        notify == publish /\ aggregator_tx > 0
    IN
    /\ component_state' = [component_state EXCEPT ![c] =
                              IF send_update THEN state_cached(cs) ELSE cs]
    /\ health_state' = [health_state EXCEPT ![c] =
                           IF publish THEN new_state ELSE @]
    /\ health_tx' = [health_tx EXCEPT ![c] =
                        IF publish /\ receiver_count(c) > 0
                        THEN new_state ELSE @]
    /\ aggregator_rx' =
          IF notify
          THEN Append(aggregator_rx, ComponentHealthChanged)
          ELSE aggregator_rx
    /\ last' = [kind |-> "component", component |-> c, type |-> ev.type,
                report |-> ev.report, send_update |-> send_update,
                new_state |-> new_state, health_state |-> health_state[c],
                published |-> publish, notified |-> notify]
    /\ obs' = ObsWrite(obs, c, publish /\ receiver_count(c) > 0)

\* ComponentRecv dropping the reply end of the aggregator's GetReport.
ComponentRecv_keeps_reply(c) ==
    /\ worker[c] = "running"
    /\ component_rx[c] # <<>>
    /\ LET msg == Head(component_rx[c])
           r == component_message(component_state[c], debouncer[c], msg)
       IN
       /\ component_rx' = [component_rx EXCEPT ![c] = Tail(@)]
       /\ debouncer' = [debouncer EXCEPT ![c] = r.debouncer]
       /\ IF msg.type \in PublisherMessages
          THEN /\ delivered' = [delivered EXCEPT ![msg.from] = msg.holds]
               /\ since_msg' = [since_msg EXCEPT ![c] = 0]
               /\ UNCHANGED <<gather, calls>>
          ELSE /\ IF msg.reply = "agg"
                  THEN UNCHANGED <<gather, calls>>
                  ELSE /\ calls' = [calls EXCEPT !.report = None]
                       /\ UNCHANGED gather
               /\ UNCHANGED <<delivered, since_msg>>
       /\ ComponentUpdate(c, r.component_state, r.send_update,
                          [type |-> msg.type, report |-> r.report])
    /\ UNCHANGED <<svars, dvars, aggregator_tx, agg_worker, monitors,
                   agg_debouncer, agg_health_tx, component, worker, publisher>>

\* msg = component_rx.recv() => Some(msg)
ComponentRecv(c) ==
    /\ worker[c] = "running"
    /\ component_rx[c] # <<>>
    /\ LET msg == Head(component_rx[c])
           r == component_message(component_state[c], debouncer[c], msg)
       IN
       /\ component_rx' = [component_rx EXCEPT ![c] = Tail(@)]
       /\ debouncer' = [debouncer EXCEPT ![c] = r.debouncer]
       /\ IF msg.type \in PublisherMessages
          THEN /\ delivered' = [delivered EXCEPT ![msg.from] = msg.holds]
               /\ since_msg' = [since_msg EXCEPT ![c] = 0]
               /\ UNCHANGED <<gather, calls>>
          ELSE /\ IF msg.reply = "agg"
                  THEN /\ gather' = [gather EXCEPT !.reply = r.report]
                       /\ UNCHANGED calls
                  ELSE /\ calls' = [calls EXCEPT !.report = None]
                       /\ UNCHANGED gather
               /\ UNCHANGED <<delivered, since_msg>>
       /\ ComponentUpdate(c, r.component_state, r.send_update,
                          [type |-> msg.type, report |-> r.report])
    /\ UNCHANGED <<svars, dvars, aggregator_tx, agg_worker, monitors,
                   agg_debouncer, agg_health_tx, component, worker, publisher>>

\* () = debouncer.ready()
ComponentReady(c) ==
    /\ worker[c] = "running"
    /\ poll(debouncer[c]).ready
    /\ debouncer' = [debouncer EXCEPT ![c] = poll(debouncer[c]).deb]
    /\ ComponentUpdate(c, component_state[c], TRUE,
                       [type |-> "ready", report |-> None])
    /\ UNCHANGED <<svars, dvars, aggregator_tx, agg_worker, monitors,
                   agg_debouncer, agg_health_tx, gather, component,
                   component_rx, worker, publisher, delivered, since_msg,
                   calls>>

\* msg = component_rx.recv() => None: every sender is dropped and the mailbox
\* is empty.  The worker's locals are dropped; the broadcast slot keeps its
\* last value for its readers.
\* Mutant: the worker returns as soon as the mailbox is closed, with
\* whatever is still in it.
ComponentExit_discards(c) ==
    /\ worker[c] = "running"
    /\ strong_count(c) = 0
    /\ worker' = [worker EXCEPT ![c] = "exited"]
    /\ component_rx' = [component_rx EXCEPT ![c] = <<>>]
    /\ component_state' = [component_state EXCEPT ![c] = NewComponentState(c)]
    /\ health_state' = [health_state EXCEPT ![c] = Nominal]
    /\ debouncer' = [debouncer EXCEPT ![c] = NewDebouncer(ComponentDelay)]
    /\ since_msg' = [since_msg EXCEPT ![c] = 0]
    /\ last' = [kind |-> "exit", component |-> c]
    /\ UNCHANGED <<svars, dvars, obs, aggvars, component, health_tx,
                   publisher, delivered, calls>>

ComponentExit(c) ==
    /\ worker[c] = "running"
    /\ component_rx[c] = <<>>
    /\ strong_count(c) = 0
    /\ worker' = [worker EXCEPT ![c] = "exited"]
    /\ component_state' = [component_state EXCEPT ![c] = NewComponentState(c)]
    /\ health_state' = [health_state EXCEPT ![c] = Nominal]
    /\ debouncer' = [debouncer EXCEPT ![c] = NewDebouncer(ComponentDelay)]
    /\ since_msg' = [since_msg EXCEPT ![c] = 0]
    /\ last' = [kind |-> "exit", component |-> c]
    /\ UNCHANGED <<svars, dvars, obs, aggvars, component, component_rx, health_tx,
                   publisher, delivered, calls>>

(***************************************************************************)
(* aggregator_worker                                                       *)
(***************************************************************************)
\* The first monitor from position i on whose weak sender upgrades (the
\* aggregator itself holds no sender at that point), Len + 1 if none does.
\* Mutant: monitor.report sends without the upgrade having succeeded.
next_unchecked(ms, i) == i

RECURSIVE next_upgradable(_, _)
next_upgradable(ms, i) ==
    IF i > Len(ms) THEN i
    ELSE IF OtherSenders(ms[i]) > 0 THEN i
    ELSE next_upgradable(ms, i + 1)

\* `for monitor in &monitors { monitor.report(filter).await .. }` from
\* position i on, up to the next await, or to response_tx.send at the end.
\* A monitor whose sender does not upgrade yields None and is skipped.
Gather(ms, filter, i, reports) ==
    LET j == next_upgradable(ms, i) IN
    IF j <= Len(ms)
    THEN /\ component_rx' = [component_rx EXCEPT ![ms[j]] =
                                Append(@, GetReport(filter, "agg"))]
         /\ agg_worker' = "awaiting"
         /\ gather' = [filter |-> filter, index |-> j, reports |-> reports,
                       reply |-> None]
         /\ UNCHANGED calls
         /\ last' = [kind |-> "aggregator", type |-> "GetReport",
                     written |-> None, reports |-> None]
    ELSE /\ agg_worker' = "running"
         /\ gather' = NoGather
         /\ calls' = [calls EXCEPT !.reports = None]
         /\ last' = [kind |-> "aggregator", type |-> "GetReport",
                     written |-> None, reports |-> Some(reports),
                     call |-> calls.reports[1]]
         /\ UNCHANGED component_rx

\* Mutant: an overall health equal to the one in the slot is not written.
AggregatorUpdate_suppresses(send_update, type) ==
    LET overall == get_aggregate_health_state(monitor_states(monitors))
        write == /\ send_update
                 /\ overall # agg_health_tx
                 /\ receiver_count(AggregatorRx) > 0
    IN
    /\ agg_health_tx' = IF write THEN overall ELSE agg_health_tx
    /\ last' = [kind |-> "aggregator", type |-> type,
                written |-> IF write THEN Some(overall) ELSE None,
                reports |-> None, previous |-> agg_health_tx]
    /\ obs' = ObsWrite(obs, AggregatorRx, write)

\* The end of an iteration of the loop: `if send_update { .. }`.
AggregatorUpdate(send_update, type) ==
    LET overall == get_aggregate_health_state(monitor_states(monitors))
        write == send_update /\ receiver_count(AggregatorRx) > 0
    IN
    /\ agg_health_tx' = IF write THEN overall ELSE agg_health_tx
    /\ last' = [kind |-> "aggregator", type |-> type,
                written |-> IF write THEN Some(overall) ELSE None,
                reports |-> None, previous |-> agg_health_tx]
    /\ obs' = ObsWrite(obs, AggregatorRx, write)

AggregatorHead(type) ==
    /\ agg_worker = "running"
    /\ aggregator_rx # <<>>
    /\ Head(aggregator_rx).type = type
    /\ aggregator_rx' = Tail(aggregator_rx)

\* Some(AggregatorMessage::ComponentCreated(monitor))
AggregatorComponentCreated ==
    /\ AggregatorHead("ComponentCreated")
    /\ monitors' = Append(monitors, Head(aggregator_rx).monitor)
    /\ last' = [kind |-> "aggregator", type |-> "ComponentCreated",
                written |-> None, reports |-> None]
    /\ UNCHANGED <<svars, dvars, obs, aggregator_tx, agg_worker, agg_debouncer,
                   agg_health_tx, gather, compvars, publisher, delivered,
                   since_msg, calls>>

\* Some(AggregatorMessage::GetReport(filter, response_tx)): the duds are
\* dropped from monitors.  The application's threads run on between this and
\* the upgrade in monitor.report.
AggregatorGetReport ==
    /\ AggregatorHead("GetReport")
    /\ monitors' = retain_alive(monitors)
    /\ agg_worker' = "gathering"
    /\ gather' = [filter |-> Head(aggregator_rx).filter, index |-> 1,
                  reports |-> <<>>, reply |-> None]
    /\ last' = [kind |-> "aggregator", type |-> "GetReport",
                written |-> None, reports |-> None]
    /\ UNCHANGED <<svars, dvars, obs, aggregator_tx, agg_debouncer, agg_health_tx,
                   compvars, publisher, delivered, since_msg, calls>>

\* The loop over the monitors goes on, from the monitor gather.index.
AggregatorGather ==
    /\ agg_worker = "gathering"
    /\ Gather(monitors, gather.filter, gather.index, gather.reports)
    /\ UNCHANGED <<svars, dvars, obs, aggregator_tx, aggregator_rx, monitors,
                   agg_debouncer, agg_health_tx, component, worker,
                   component_state, health_state, debouncer, health_tx,
                   publisher, delivered, since_msg>>

\* Mutant: the report is put at the front of the reports.
AggregatorReportReply_prepends ==
    /\ agg_worker = "awaiting"
    /\ gather.reply # None
    /\ agg_worker' = "gathering"
    /\ gather' = [gather EXCEPT !.index = @ + 1,
                                !.reports = <<gather.reply[1]>> \o @,
                                !.reply = None]
    /\ last' = [kind |-> "aggregator", type |-> "GetReport",
                written |-> None, reports |-> None]
    /\ UNCHANGED <<svars, dvars, obs, aggregator_tx, aggregator_rx, monitors,
                   agg_debouncer, agg_health_tx, compvars, publisher,
                   delivered, since_msg, calls>>

\* monitor.report(filter).await completes: the report is pushed and the
\* sender the aggregator held is dropped.
AggregatorReportReply ==
    /\ agg_worker = "awaiting"
    /\ gather.reply # None
    /\ agg_worker' = "gathering"
    /\ gather' = [gather EXCEPT !.index = @ + 1,
                                !.reports = Append(@, gather.reply[1]),
                                !.reply = None]
    /\ last' = [kind |-> "aggregator", type |-> "GetReport",
                written |-> None, reports |-> None]
    /\ UNCHANGED <<svars, dvars, obs, aggregator_tx, aggregator_rx, monitors,
                   agg_debouncer, agg_health_tx, compvars, publisher,
                   delivered, since_msg, calls>>

\* Some(AggregatorMessage::ComponentHealthChanged)
AggregatorHealthChanged ==
    /\ AggregatorHead("ComponentHealthChanged")
    /\ agg_debouncer' = trigger(agg_debouncer).deb
    /\ AggregatorUpdate(trigger(agg_debouncer).fired, "ComponentHealthChanged")
    /\ UNCHANGED <<svars, dvars, aggregator_tx, agg_worker, monitors, gather,
                   compvars, publisher, delivered, since_msg, calls>>

\* Some(AggregatorMessage::ComponentDropped)
AggregatorComponentDropped ==
    /\ AggregatorHead("ComponentDropped")
    /\ monitors' = retain_alive(monitors)
    /\ last' = [kind |-> "aggregator", type |-> "ComponentDropped",
                written |-> None, reports |-> None,
                removed |-> Len(monitors) - Len(retain_alive(monitors))]
    /\ UNCHANGED <<svars, dvars, obs, aggregator_tx, agg_worker, agg_debouncer,
                   agg_health_tx, gather, compvars, publisher, delivered,
                   since_msg, calls>>

\* () = debouncer.ready()
AggregatorReady ==
    /\ agg_worker = "running"
    /\ poll(agg_debouncer).ready
    /\ agg_debouncer' = poll(agg_debouncer).deb
    /\ AggregatorUpdate(TRUE, "ready")
    /\ UNCHANGED <<svars, dvars, aggregator_tx, aggregator_rx, agg_worker,
                   monitors, gather, compvars, publisher, delivered,
                   since_msg, calls>>

\* Mutant: the components and their workers hold strong senders of the
\* aggregator mailbox, recv() yields None only once they are gone too.
AggregatorExit_components_hold_senders ==
    /\ agg_worker = "running"
    /\ aggregator_rx = <<>>
    /\ aggregator_tx = 0
    /\ \A c \in Components : worker[c] # "running"
    /\ agg_worker' = "exited"
    /\ monitors' = <<>>
    /\ agg_debouncer' = NewDebouncer(AggregatorDelay)
    /\ last' = [kind |-> "exit", component |-> 0]
    /\ UNCHANGED <<svars, dvars, obs, aggregator_tx, aggregator_rx, agg_health_tx,
                   gather, compvars, publisher, delivered, since_msg, calls>>

\* msg = aggregator_rx.recv() => None
AggregatorExit ==
    /\ agg_worker = "running"
    /\ aggregator_rx = <<>>
    /\ aggregator_tx = 0
    /\ agg_worker' = "exited"
    /\ monitors' = <<>>
    /\ agg_debouncer' = NewDebouncer(AggregatorDelay)
    /\ last' = [kind |-> "exit", component |-> 0]
    /\ UNCHANGED <<svars, dvars, obs, aggregator_tx, aggregator_rx, agg_health_tx,
                   gather, compvars, publisher, delivered, since_msg, calls>>

(***************************************************************************)
(* The clock advances by one tick.  A tick is long (TickMs) against the    *)
(* time a task needs to be scheduled or a call needs to return: the clock  *)
(* advances only when no worker has a step to take (a message to receive,  *)
(* a due timer, a closed mailbox) and no call of the application is under  *)
(* way.  Within one instant every interleaving is possible.                *)
(***************************************************************************)
WorkerIdle(c) ==
    worker[c] = "running" =>
        /\ component_rx[c] = <<>>
        /\ ~TimerDue(debouncer[c])
        /\ strong_count(c) > 0

AggregatorIdle ==
    /\ agg_worker \notin {"gathering", "awaiting"}
    /\ agg_worker = "running" =>
          /\ aggregator_rx = <<>>
          /\ ~TimerDue(agg_debouncer)
          /\ aggregator_tx > 0

NoCallUnderWay ==
    /\ \A p \in Publishers : publisher[p].channel = <<>>
    /\ \A c \in Components : component[c].dropping = 0

Tick ==
    /\ \A c \in Components : WorkerIdle(c)
    /\ AggregatorIdle
    /\ NoCallUnderWay
    /\ debouncer' = [c \in AllComponents |->
                        IF worker[c] = "running"
                        THEN elapse(debouncer[c]) ELSE debouncer[c]]
    /\ agg_debouncer' = IF agg_worker # "exited"
                        THEN elapse(agg_debouncer) ELSE agg_debouncer
    /\ since_msg' = [c \in AllComponents |->
                        IF worker[c] = "running"
                        THEN Min(since_msg[c] + 1, ComponentDelay)
                        ELSE since_msg[c]]
    /\ last' = NoEvent
    /\ obs' = ObsTick(obs)
    /\ UNCHANGED <<svars, dvars, aggregator_tx, aggregator_rx, agg_worker,
                   monitors, agg_health_tx, gather, component, component_rx,
                   worker, component_state, health_state, health_tx,
                   publisher, delivered, calls>>

\* The component a publisher is created on in the pipeline.
HomeOf(p) == ((p - 1) % MaxComponents) + 1

\* The pipeline: components come and go, their publishers publish, the
\* application asks the aggregator for reports.
Next ==
    \/ \E c \in Components : ComponentNew(c)
    \/ \E c \in Components : ComponentDropBegin(c)
    \/ \E c \in Components : ComponentDropEnd(c)
    \/ \E p \in PipelinePublishers : PublisherNew(p, HomeOf(p))
    \/ \E p \in PipelinePublishers, g \in PipelineSignals : PublisherPublish(p, g)
    \/ \E p \in PipelinePublishers : PublisherDrop(p)
    \/ \E p \in PipelinePublishers : PublisherSend(p)
    \/ \E c \in Components, f \in PipelineFilters : ReportCall(c, f)
    \/ \E f \in PipelineFilters : ReportsCall(f)
    \/ AggregatorDrop
    \/ \E c \in Components : ComponentRecv(c)
    \/ \E c \in Components : ComponentReady(c)
    \/ \E c \in Components : ComponentExit(c)
    \/ AggregatorComponentCreated
    \/ AggregatorGetReport
    \/ AggregatorGather
    \/ AggregatorReportReply
    \/ AggregatorHealthChanged
    \/ AggregatorComponentDropped
    \/ AggregatorReady
    \/ AggregatorExit
    \/ Tick

\* One component after its aggregator is gone: its handles, its publishers
\* and the application's report() calls.
NextComponent ==
    \/ \E c \in Components : ComponentClone(c)
    \/ \E c \in Components : ComponentDropBegin(c)
    \/ \E c \in Components : ComponentDropEnd(c)
    \/ \E p \in Publishers, c \in Components : PublisherNew(p, c)
    \/ \E p \in Publishers, g \in PublishedSignals : PublisherPublish(p, g)
    \/ \E p \in Publishers : PublisherDrop(p)
    \/ \E p \in Publishers : PublisherSend(p)
    \/ \E c \in Components, f \in ComponentFilters : ReportCall(c, f)
    \/ \E c \in Components : ComponentRecv(c)
    \/ \E c \in Components : ComponentReady(c)
    \/ \E c \in Components : ComponentExit(c)
    \/ Tick

(***************************************************************************)
(* Specifications.                                                         *)
(***************************************************************************)
\* The stand-alone ComponentState alone.
DIdle == dbn = NewDebouncer(1) /\ dbn_obs = [op |-> "new"]
InitState == SInit0 /\ DIdle /\ PInit0 /\ obs = NoObserver
SpecState == InitState /\ [][SNext]_vars

\* The stand-alone Debouncer alone.
InitDebouncer == DInit0 /\ SInit0 /\ PInit0 /\ obs = NoObserver
SpecDebouncer == InitDebouncer /\ [][DNext]_vars

\* The pipeline: one aggregator, its components and their publishers.
Init == SInit0 /\ DIdle /\ PInit0 /\ obs = NoObserver
Spec == Init /\ [][Next]_vars

\* One component whose aggregator is gone: the state after
\*     let component = Aggregator::new().component(name);
\* once aggregator_worker has received ComponentCreated and, the Aggregator
\* being dropped at the end of the statement, has exited.
PInitComponent ==
    /\ aggregator_tx = 0
    /\ aggregator_rx = <<>>
    /\ agg_worker = "exited"
    /\ monitors = <<>>
    /\ agg_debouncer = NewDebouncer(AggregatorDelay)
    /\ agg_health_tx = Nominal
    /\ gather = NoGather
    /\ component = [c \in AllComponents |->
                       [handles |-> IF c \in Components THEN 1 ELSE 0,
                        dropping |-> 0]]
    /\ component_rx = [c \in AllComponents |-> <<>>]
    /\ worker = [c \in AllComponents |->
                    IF c \in Components THEN "running" ELSE "none"]
    /\ component_state = [c \in AllComponents |-> NewComponentState(c)]
    /\ health_state = [c \in AllComponents |-> Nominal]
    /\ debouncer = [c \in AllComponents |-> NewDebouncer(ComponentDelay)]
    /\ health_tx = [c \in AllComponents |-> Nominal]
    /\ publisher = [p \in Publishers |-> NoPublisher]
    /\ delivered = [p \in Publishers |-> None]
    /\ since_msg = [c \in AllComponents |-> 0]
    /\ calls = [report |-> None, reports |-> None]
    /\ last = NoEvent

InitComponent == SInit0 /\ DIdle /\ PInitComponent /\ obs = NoObserver
SpecComponent == InitComponent /\ [][NextComponent]_vars

\* That component held for good, its publishers publishing side by side,
\* what they publish being followed.
NextPublish ==
    \/ \E p \in Publishers, c \in Components : PublisherNew(p, c)
    \/ \E p \in Publishers, g \in PublishedSignals : PublisherPublish(p, g)
    \/ \E p \in Publishers : PublisherSend(p)
    \/ \E c \in Components : ComponentRecv(c)
    \/ \E c \in Components : ComponentReady(c)
    \/ Tick

\* The pipeline with the application awaiting changed() on the Aggregator and
\* on a handle of each component.
NextWatch ==
    \/ \E c \in Components : ComponentNew(c)
    \/ \E c \in Components : ComponentDropBegin(c)
    \/ \E c \in Components : ComponentDropEnd(c)
    \/ \E p \in PipelinePublishers : PublisherNew(p, HomeOf(p))
    \/ \E p \in PipelinePublishers, g \in PipelineSignals : PublisherPublish(p, g)
    \/ \E p \in PipelinePublishers : PublisherSend(p)
    \/ \E w \in Watched : ChangedCall(w)
    \/ AggregatorDrop
    \/ \E c \in Components : ComponentRecv(c)
    \/ \E c \in Components : ComponentReady(c)
    \/ \E c \in Components : ComponentExit(c)
    \/ AggregatorComponentCreated
    \/ AggregatorHealthChanged
    \/ AggregatorComponentDropped
    \/ AggregatorReady
    \/ AggregatorExit
    \/ Tick

InitWatch == SInit0 /\ DIdle /\ PInit0 /\ obs = Watchers
SpecWatch == InitWatch /\ [][NextWatch]_vars

InitPublish == SInit0 /\ DIdle /\ PInitComponent /\ obs = PublishObserver
SpecPublish == InitPublish /\ [][NextPublish]_vars

\* The pipeline from the creation of a component to the exit of its worker:
\* the handle and its clones are dropped while publishers publish and the
\* application asks the aggregator for reports.  The clock stands still: a
\* worker whose mailbox no sender holds has a step to take, so that no time
\* passes between the last drop and the exit.
NextExit ==
    \/ \E c \in Components : ComponentNew(c)
    \/ \E c \in Components : ComponentClone(c)
    \/ \E c \in Components : ComponentDropBegin(c)
    \/ \E c \in Components : ComponentDropEnd(c)
    \/ \E p \in Publishers : PublisherNew(p, HomeOf(p))
    \/ \E p \in Publishers, g \in PipelineSignals : PublisherPublish(p, g)
    \/ \E p \in Publishers : PublisherSend(p)
    \/ \E f \in PipelineFilters : ReportsCall(f)
    \/ AggregatorDrop
    \/ \E c \in Components : ComponentRecv(c)
    \/ \E c \in Components : ComponentExit(c)
    \/ AggregatorComponentCreated
    \/ AggregatorGetReport
    \/ AggregatorGather
    \/ AggregatorReportReply
    \/ AggregatorComponentDropped
    \/ AggregatorExit

\* The tasks are scheduled fairly: a worker that has a step to take takes
\* one, and a call that has started goes on.  Nothing is required of what
\* the application calls, nor when.
Scheduling ==
    /\ \A c \in Components :
          /\ WF_vars(ComponentRecv(c))
          /\ WF_vars(ComponentExit(c))
          /\ WF_vars(ComponentDropEnd(c))
    /\ \A p \in Publishers : WF_vars(PublisherSend(p))
    /\ WF_vars(AggregatorComponentCreated)
    /\ WF_vars(AggregatorGetReport)
    /\ WF_vars(AggregatorGather)
    /\ WF_vars(AggregatorReportReply)
    /\ WF_vars(AggregatorComponentDropped)
    /\ WF_vars(AggregatorExit)

SpecExit == Init /\ [][NextExit]_vars /\ Scheduling

\* The application creates and drops components and asks the aggregator for
\* reports, nothing is published and the clock is held.
NextReports ==
    \/ \E c \in AllComponents : ComponentNew(c)
    \/ \E c \in AllComponents : ComponentDropBegin(c)
    \/ \E c \in AllComponents : ComponentDropEnd(c)
    \/ \E f \in PipelineFilters : ReportsCall(f)
    \/ \E c \in AllComponents : ComponentRecv(c)
    \/ \E c \in AllComponents : ComponentExit(c)
    \/ AggregatorComponentCreated
    \/ AggregatorGetReport
    \/ AggregatorGather
    \/ AggregatorReportReply
    \/ AggregatorComponentDropped

SpecReports == Init /\ [][NextReports]_vars

(***************************************************************************)
(* attribute.rs, attribute_string.rs, attribute_value.rs.  A string is a   *)
(* sequence of characters (two of them, 1 < 2); an AttributeString is a    *)
(* static or a boxed string.  An AttributeValue is its variant with the    *)
(* payload n (an i64, an f64 that is a number or NaN, a bool as 0 or 1)    *)
(* or string.                                                              *)
(***************************************************************************)
Strings == UNION {[1 .. n -> {1, 2}] : n \in 0 .. MaxNameLen}
AttributeString == [variant : {"Static", "Boxed"}, str : Strings]
NaN == 0
NoString == [variant |-> "Static", str |-> <<>>]
AttributeValue ==
    [type : {"Int"}, n : {1, 2}, string : {NoString}]
    \cup [type : {"Double"}, n : {1, NaN}, string : {NoString}]
    \cup [type : {"Boolean"}, n : {1}, string : {NoString}]
    \cup [type : {"String"}, n : {0},
          string : {[variant |-> "Static", str |-> <<1>>],
                    [variant |-> "Boxed", str |-> <<1>>],
                    [variant |-> "Boxed", str |-> <<2>>]}]
Attribute == [name : AttributeString, value : AttributeValue]

\* AttributeString::as_str
as_str(s) == s.str

\* str::cmp: lexicographic, a proper prefix is Less.
RECURSIVE str_cmp(_, _)
str_cmp(s, t) ==
    IF s = <<>> THEN (IF t = <<>> THEN "Equal" ELSE "Less")
    ELSE IF t = <<>> THEN "Greater"
    ELSE IF Head(s) < Head(t) THEN "Less"
    ELSE IF Head(s) > Head(t) THEN "Greater"
    ELSE str_cmp(Tail(s), Tail(t))

\* #[derive(PartialEq)] for AttributeValue: the same variant and equal
\* payloads, an f64 by IEEE equality, an AttributeString by as_str().
value_eq(v, w) ==
    /\ v.type = w.type
    /\ CASE v.type = "Double" -> v.n = w.n /\ v.n # NaN
         [] v.type = "String" -> as_str(v.string) = as_str(w.string)
         [] OTHER -> v.n = w.n

\* #[derive(PartialEq)] for Attribute
attribute_eq(a, b) ==
    as_str(a.name) = as_str(b.name) /\ value_eq(a.value, b.value)

\* Mutant: the ordering is that of name and value, incomparable when the
\* names are equal and the values are not.
partial_cmp_with_value(a, b) ==
    IF as_str(a.name) = as_str(b.name) /\ ~value_eq(a.value, b.value)
    THEN None
    ELSE Some(str_cmp(as_str(a.name), as_str(b.name)))

\* PartialOrd for Attribute
partial_cmp(a, b) == Some(str_cmp(as_str(a.name), as_str(b.name)))

\* Hash for Attribute: what is fed to the Hasher.
hash(a) == <<as_str(a.name), 255>>

\* The application compares the attributes a and b it holds in every way.
AttributeCompare ==
    /\ obs.kind = "attributes"
    /\ obs' = [obs EXCEPT !.result =
                  Some([eq |-> attribute_eq(obs.a, obs.b),
                        partial_cmp |-> partial_cmp(obs.a, obs.b),
                        hash_a |-> hash(obs.a),
                        hash_b |-> hash(obs.b)])]
    /\ UNCHANGED <<svars, dvars, aggvars, compvars, publisher, delivered,
                   since_msg, calls, last>>

InitAttribute ==
    /\ SInit0 /\ DIdle /\ PInit0
    /\ \E a, b \in Attribute :
          obs = [kind |-> "attributes", a |-> a, b |-> b, result |-> None]
SpecAttribute == InitAttribute /\ [][AttributeCompare]_vars

\* C6: any two consecutive fires of a Debouncer (trigger() returning true or
\* ready() completing) are at least debounce_delay apart, and the first fire
\* is at least debounce_delay after the construction.
C6_FiresAtLeastDelayApart ==
    dbn_obs.fired => dbn_obs.gap >= dbn.debounce_delay

\* A ready() completion that follows an earlier fire by exactly the delay.
C6_Witness ==
    /\ dbn_obs.op = "poll" /\ dbn_obs.fired
    /\ dbn_obs.gap = dbn.debounce_delay /\ dbn.debounce_delay > 1

\* C7 as claimed: when trigger() has returned false and ready() is polled
\* whenever the armed timer wakes the task, ready() completes before any
\* later trigger() returns true.
C7_ReadyCompletesBeforeTriggerFires ==
    (dbn_obs.op = "trigger" /\ dbn_obs.fired /\ dbn_obs.was_pending)
        => dbn_obs.late

\* C7 as amended: after trigger() has returned false the timer stays armed,
\* for no later than debounce_delay after the last fire, until the next
\* fire; that fire is ready() completing or a trigger() returning true once
\* the delay has elapsed (which cancels the timer).
C7_DeferredStaysArmed ==
    dbn_obs.pending =>
        /\ dbn.timer_active
        /\ dbn.timer_remaining + dbn_obs.since_fire <= dbn.debounce_delay

\* A trigger() has just returned false in the middle of a delay window.
C7_Witness ==
    /\ dbn_obs.op = "trigger" /\ ~dbn_obs.fired
    /\ dbn_obs.pending /\ dbn_obs.since_fire > 0

\* The highest severity with a positive count, Nominal if there is none.
HighestSeverity(counts) ==
    IF \E h \in Health : counts[h] > 0
    THEN CHOOSE h \in Health :
            counts[h] > 0 /\ \A g \in Health : g > h => counts[g] = 0
    ELSE Nominal

\* The severities whose bit is set in a filter.
RECURSIVE SumOfBits(_)
SumOfBits(S) ==
    IF S = {} THEN 0
    ELSE LET h == CHOOSE x \in S : TRUE IN FilterBit(h) + SumOfBits(S \ {h})
FilterSeverities(filter) == CHOOSE S \in SUBSET Health : SumOfBits(S) = filter

\* C8: make_report(f) returns the full counts, the highest severity with a
\* positive count as state, and per severity exactly the (signal, count)
\* entries of signals[s] if bit s is set in f and nothing otherwise.
C8_ReportIsFilteredSnapshot ==
    cs_obs.op = "make_report" =>
        LET r == cs_obs.report IN
        /\ r.counts = cstate.counts
        /\ r.state = HighestSeverity(cstate.counts)
        /\ \A s \in Health :
              r.signals[s] =
                 IF s \in FilterSeverities(cs_obs.filter)
                 THEN {<<g, cstate.signals[s][g]>> :
                          g \in DOMAIN cstate.signals[s]}
                 ELSE {}

\* Scenario 4: one publisher at Degraded, one at Critical, Filter::CRITICAL.
C8_Witness ==
    /\ cs_obs.op = "make_report"
    /\ cs_obs.filter = FilterBit(Critical)
    /\ cs_obs.report.counts = [h \in Health |->
                                 IF h \in {Degraded, Critical} THEN 1 ELSE 0]
    /\ cs_obs.report.signals[Critical] = {<<NewSignal(Critical, {}), 1>>}
    /\ cs_obs.report.signals[Degraded] = {}
    /\ cs_obs.report.state = Critical

(***************************************************************************)
(* The component worker against the publishers it serves.  delivered[p] is *)
(* the signal publisher p holds according to the messages the worker has   *)
(* processed; the definitions below are what a ComponentState holding      *)
(* exactly those signals contains.                                         *)
(***************************************************************************)
Registered(c) ==
    {p \in Publishers : publisher[p].component = c /\ delivered[p] # None}

DeliveredCounts(c) ==
    [i \in Health |->
        Cardinality({p \in Registered(c) : delivered[p][1].state = i})]

DeliveredSignals(c) ==
    [i \in Health |->
        [g \in {delivered[p][1] : p \in {q \in Registered(c) :
                                            delivered[q][1].state = i}} |->
            Cardinality({p \in Registered(c) : delivered[p][1] = g})]]

DeliveredReport(c, filter) ==
    [name |-> c,
     state |-> HighestSeverity(DeliveredCounts(c)),
     counts |-> DeliveredCounts(c),
     signals |-> [i \in Health |->
                    IF i \in FilterSeverities(filter)
                    THEN {<<g, DeliveredSignals(c)[i][g]>> :
                             g \in DOMAIN DeliveredSignals(c)[i]}
                    ELSE {}]]

\* C1: while a component worker runs, whenever no deferred update is pending
\* the broadcast slot equals the highest severity among the signals of the
\* publishers registered by the messages processed so far (Nominal if there is
\* none); and a deferred update is due no later than one component debounce
\* delay after the last publisher message was processed.  The slot is the
\* one its read ends show: once none is left a send to it fails (4.7, best
\* effort), and none can be made again.
C1_SlotSettlesWithinDelay ==
    \A c \in Components :
        worker[c] = "running" =>
            /\ (~debouncer[c].timer_active /\ receiver_count(c) > 0) =>
                  health_tx[c] = HighestSeverity(DeliveredCounts(c))
            /\ debouncer[c].timer_active =>
                  debouncer[c].timer_remaining + since_msg[c] <= ComponentDelay

\* A deferred update has just published Critical, the higher of the severities
\* two registered publishers hold.
C1_Witness ==
    /\ last.kind = "component"
    /\ last.type = "ready"
    /\ last.published
    /\ health_tx[last.component] = Critical
    /\ DeliveredCounts(last.component)[Degraded] = 1
    /\ DeliveredCounts(last.component)[Critical] = 1

\* C3: a publisher's change from one signal to another is one step of the
\* worker: after every message the ComponentState holds exactly the signals of
\* the registered publishers, the changed publisher's new signal in place of
\* its old one, and so does every value published to the slot (while it has
\* a read end) and every report returned.
C3_ChangeIsOneStep ==
    \A c \in Components :
        worker[c] = "running" =>
            /\ component_state[c].counts = DeliveredCounts(c)
            /\ component_state[c].signals = DeliveredSignals(c)
            /\ (last.kind = "component" /\ last.component = c) =>
                  /\ (last.published /\ receiver_count(c) > 0) =>
                        health_tx[c] = HighestSeverity(DeliveredCounts(c))
                  /\ last.report # None =>
                        /\ last.report[1].counts = DeliveredCounts(c)
                        /\ last.report[1].state =
                              HighestSeverity(DeliveredCounts(c))

\* The worker has just processed the change of a sole publisher to Critical.
C3_Witness ==
    /\ last.kind = "component"
    /\ last.type = "ChangeHealth"
    /\ Cardinality(Registered(last.component)) = 1
    /\ component_state[last.component].counts[Critical] = 1
    /\ Total(component_state[last.component].counts) = 1

\* The sum of the multiplicities a map stores.
MapTotal(map) == SumOver(map, DOMAIN map)

\* C4: in every state of a component worker, for every severity s, counts[s]
\* is the sum of the multiplicities stored in signals[s], and signals[s] has no
\* entry of multiplicity 0.
C4_CountsMatchSignals ==
    \A c \in Components :
        worker[c] = "running" =>
            \A s \in Health :
                /\ component_state[c].counts[s] =
                      MapTotal(component_state[c].signals[s])
                /\ \A g \in DOMAIN component_state[c].signals[s] :
                      component_state[c].signals[s][g] # 0

\* One of two publishers holding the same signal has just been removed: the
\* entry stays with multiplicity 1.
C4_Witness ==
    /\ last.kind = "component"
    /\ last.type = "StopPublishing"
    /\ \E s \in Health :
          \E g \in DOMAIN component_state[last.component].signals[s] :
              /\ component_state[last.component].signals[s][g] = 1
              /\ component_state[last.component].counts[s] = 1

\* C5: each time the update path of a component worker runs with the
\* recomputed state new_state, the worker writes new_state to the slot exactly
\* when new_state differs from the last published health or is not Nominal,
\* and then (the aggregator still existing) sends ComponentHealthChanged;
\* otherwise it writes and sends nothing.  The write is the worker's send to
\* the slot, which takes effect while the slot has a read end.
C5_PublishUnlessNominalRepeats ==
    (last.kind = "component" /\ last.send_update) =>
        /\ last.published <=>
              (last.new_state # last.health_state \/ last.new_state # Nominal)
        /\ health_state[last.component] =
              IF last.published THEN last.new_state ELSE last.health_state
        /\ receiver_count(last.component) > 0 =>
              health_tx[last.component] = health_state[last.component]
        /\ last.notified <=> (last.published /\ aggregator_tx > 0)
        /\ last.notified =>
              /\ aggregator_rx # <<>>
              /\ aggregator_rx[Len(aggregator_rx)] = ComponentHealthChanged

\* A non-nominal state of unchanged severity has just been published again and
\* the aggregator notified.
C5_Witness ==
    /\ last.kind = "component"
    /\ last.send_update
    /\ last.new_state = last.health_state
    /\ last.new_state # Nominal
    /\ last.published
    /\ last.notified

\* C9: the step of a component worker that receives GetReport replies with the
\* report of the ComponentState made by the publisher messages processed
\* before it, and leaves counts, signals, the debouncer, the last published
\* health, the broadcast slot and the aggregator mailbox unchanged.
C9_GetReportOnlyReports ==
    [][\A c \in Components :
          ( /\ worker[c] = "running"
            /\ component_rx[c] # <<>>
            /\ Head(component_rx[c]).type = "GetReport"
            /\ component_rx'[c] = Tail(component_rx[c]) )
          => /\ last'.report =
                   Some(DeliveredReport(c, Head(component_rx[c]).filter))
             /\ component_state'[c].counts = component_state[c].counts
             /\ component_state'[c].signals = component_state[c].signals
             /\ debouncer'[c] = debouncer[c]
             /\ health_state'[c] = health_state[c]
             /\ health_tx'[c] = health_tx[c]
             /\ aggregator_rx' = aggregator_rx
             /\ delivered' = delivered]_vars

\* A report has just been returned while an update is deferred: it shows a
\* state the broadcast slot does not show yet.
C9_Witness ==
    /\ last.kind = "component"
    /\ last.type = "GetReport"
    /\ debouncer[last.component].timer_active
    /\ last.report[1].state # health_tx[last.component]

(***************************************************************************)
(* The aggregator against its components.                                  *)
(***************************************************************************)
\* The Aggregator is held and nothing is left to do: every mailbox is empty,
\* no call is under way and no timer is armed.
Quiescent ==
    /\ aggregator_tx > 0
    /\ agg_worker = "running"
    /\ aggregator_rx = <<>>
    /\ ~agg_debouncer.timer_active
    /\ NoCallUnderWay
    /\ \A c \in Components :
          /\ component_rx[c] = <<>>
          /\ worker[c] = "running" =>
                ~debouncer[c].timer_active /\ strong_count(c) > 0

\* The components the application still holds a handle of.
Live == {c \in Components : component[c].handles > 0}

RECURSIVE MaxOver(_, _)
MaxOver(f, S) ==
    IF S = {} THEN Nominal
    ELSE LET x == CHOOSE y \in S : TRUE IN Max(f[x], MaxOver(f, S \ {x}))

\* C2: once nothing is left to do, the aggregator's broadcast slot equals the
\* highest severity over the slots of the components that are still live
\* (Nominal if there is none), a dropped component contributing nothing.
C2_OverallSettlesOnLiveComponents ==
    Quiescent => agg_health_tx = MaxOver(health_tx, Live)

\* The components a list of reports has a report of, and how many of each.
ReportsOf(reports, c) ==
    Cardinality({i \in 1 .. Len(reports) : reports[i].name = c})

\* C10: the reply to a reports() call made after every handle of a component
\* was dropped has no report of that component, and exactly one of each
\* component that has had a live handle throughout the call.
C10_NoReportOfDroppedComponent ==
    (last.kind = "aggregator" /\ last.reports # None) =>
        /\ \A c \in last.call.dropped : ReportsOf(last.reports[1], c) = 0
        /\ \A c \in last.call.held \cap Live :
              ReportsOf(last.reports[1], c) = 1

\* C11: publish(H, A) on a publisher whose signal already is Signal(H, A)
\* sends no message (none is handed to the mailbox, none is about to be) and
\* leaves the publisher as it was, its signal included; so the second of two
\* equal publish calls does nothing.
C11_RepeatedPublishIsNoOp ==
    [][(last'.kind = "publish" /\ ~last'.changed) =>
          /\ publisher' = publisher
          /\ component_rx' = component_rx
          /\ aggregator_rx' = aggregator_rx
          /\ InFlight' = InFlight]_vars

\* A publisher published the non-nominal signal it holds, and which the
\* worker has registered for it, once more.
C11_Witness ==
    /\ last.kind = "publish"
    /\ ~last.changed
    /\ publisher[last.publisher].signal = NewSignal(Critical, Attributes)
    /\ delivered[last.publisher] = Some(publisher[last.publisher].signal)
    /\ publisher[last.publisher].channel = <<>>

\* C12: Clone for Publisher makes a publisher of the source's component whose
\* signal is nominal-empty whatever the source holds, registers it with
\* StartPublishing(nominal-empty) when the component's mailbox still has a
\* sender, and leaves the source as it was; and a publish() on one publisher
\* never changes the signal field of another.
C12_CloneIsNominalAndIndependent ==
    [][/\ \A p, q \in Publishers :
             (last'.kind = "new" /\ last'.publisher = p
                  /\ last'.source = BorrowsPublisher(q)) =>
                /\ publisher'[p].status = "live"
                /\ publisher'[p].component = publisher[q].component
                /\ publisher'[p].signal = NominalSignal
                /\ publisher'[p].channel =
                      IF strong_count(publisher[q].component) > 0
                      THEN <<StartPublishing(NominalSignal, p,
                                             Some(NominalSignal))>>
                      ELSE <<>>
                /\ publisher'[q] = publisher[q]
       /\ \A p, q \in Publishers :
             (last'.kind = "publish" /\ last'.publisher = p /\ q # p) =>
                publisher'[q].signal = publisher[q].signal]_vars

\* A publisher holding Critical was just cloned (the component alive): the
\* clone holds the nominal signal and is about to register it.
C12_Witness ==
    /\ last.kind = "new"
    /\ last.source[1] = "publisher"
    /\ publisher[last.source[2]].signal = NewSignal(Critical, Attributes)
    /\ delivered[last.source[2]] = Some(NewSignal(Critical, Attributes))
    /\ publisher[last.publisher].signal = NominalSignal
    /\ publisher[last.publisher].channel # <<>>

\* C13: once the mailbox of a component has no strong sender left, it never
\* has one again; making (by clone), publishing on or dropping a publisher of
\* that component hands no message to any mailbox and leaves none about to be
\* sent; and a worker that has exited stays exited.
C13_InertAfterComponentGone ==
    [][\A c \in Components :
          (worker[c] # "none" /\ strong_count(c) = 0) =>
             /\ strong_count(c)' = 0
             /\ worker[c] = "exited" => worker'[c] = "exited"
             /\ \A p \in Publishers :
                   (publisher'[p] # publisher[p]
                        /\ publisher'[p].component = c) =>
                      /\ publisher'[p].channel = <<>>
                      /\ component_rx' = component_rx
                      /\ aggregator_rx' = aggregator_rx]_vars

\* After the worker exited, one publisher was made inert (it never
\* registered) and published Critical, and one whose signal the worker held
\* to the end was dropped.
C13_Witness ==
    \E c \in Components, p, q \in Publishers :
       /\ worker[c] = "exited"
       /\ strong_count(c) = 0
       /\ publisher[p].component = c
       /\ publisher[p].status = "live"
       /\ publisher[p].signal = NewSignal(Critical, Attributes)
       /\ delivered[p] = None
       /\ publisher[q].component = c
       /\ publisher[q].status = "dropped"
       /\ delivered[q] # None
       /\ component_rx[c] = <<>>

\* The worker of component c has nothing left to do: no message is on its
\* way, none is in the mailbox and no deferred update is pending.
Settled(c) ==
    /\ component_rx[c] = <<>>
    /\ \A p \in Publishers :
          publisher[p].component = c => publisher[p].channel = <<>>
    /\ ~debouncer[c].timer_active

\* C14: the publish calls made within one instant (less than a component
\* delay apart), by a single publisher or by several, cause at most two
\* writes of the component's slot, and once the worker has settled the slot
\* carries the severity of the last of them (the highest of the last ones).
C14_BurstWritesAtMostTwice ==
    /\ obs.writes <= 2
    /\ \A c \in Components :
          (obs.len > 0 /\ Settled(c)) =>
             health_tx[c] =
                MaxOver([p \in Publishers |-> publisher[p].signal.state],
                        {p \in Publishers : /\ publisher[p].status = "live"
                                            /\ publisher[p].component = c})

\* A burst of MaxBurst distinct publishes of the only publisher, ending in
\* Critical, caused an immediate and a deferred write, the second carrying
\* Critical.
C14_Witness ==
    /\ obs.len = MaxBurst
    /\ \A p \in Publishers : p # 1 => publisher[p].status = "none"
    /\ obs.writes = 2
    /\ last.kind = "component"
    /\ last.type = "ready"
    /\ last.published
    /\ Settled(1)
    /\ publisher[1].signal = NewSignal(Critical, Attributes)
    /\ health_tx[1] = Critical

\* The publishers of component c the application holds.
Held(c) ==
    {p \in Publishers : publisher[p].status = "live" /\ publisher[p].component = c}

\* C15: when the publishers of a component have each published Degraded and
\* then Nominal, in any interleaving, and the worker has processed every
\* message and settled, counts[Nominal] is their number, every other count
\* is 0, no other severity has a signal left, and the slot is Nominal.
C15_AllBackToNominal ==
    \A c \in Components :
        ( /\ Settled(c)
          /\ \A p \in Held(c) : publisher[p].signal = NominalSignal ) =>
            /\ component_state[c].counts =
                  [s \in Health |->
                      IF s = Nominal THEN Cardinality(Held(c)) ELSE 0]
            /\ \A s \in Health \ {Nominal} :
                  component_state[c].signals[s] = EmptyMap
            /\ health_tx[c] = Nominal

\* MaxPublishers publishers have all published Degraded, the slot has shown
\* it, and all are back at Nominal and settled.
C15_Witness ==
    /\ obs.degraded = Publishers
    /\ Settled(1)
    /\ \A p \in Publishers : p \in Held(1) /\ publisher[p].signal = NominalSignal
    /\ component_state[1].counts[Nominal] = MaxPublishers
    /\ last.kind = "component"
    /\ last.type = "ready"
    /\ last.health_state = Degraded
    /\ health_tx[1] = Nominal

\* C16: on a component the application still holds, once the publishers
\* holding a non-nominal signal are dropped (no held publisher holds one)
\* and nothing is left to do, the dropped publishers' signals are out of the
\* counts and the component's slot is Nominal; and when this is so of every
\* component there is, the aggregator's slot is Nominal too.
C16_DropReturnsToNominal ==
    Quiescent =>
        /\ \A c \in Live :
              (\A p \in Held(c) : publisher[p].signal = NominalSignal) =>
                 /\ component_state[c].counts =
                       [s \in Health |->
                           IF s = Nominal THEN Cardinality(Held(c)) ELSE 0]
                 /\ health_tx[c] = Nominal
        /\ (\A c \in Components :
               worker[c] # "none" =>
                  /\ c \in Live
                  /\ \A p \in Held(c) : publisher[p].signal = NominalSignal)
              => agg_health_tx = Nominal

\* The only publisher was dropped while the aggregator showed Critical, and
\* the aggregator has just written Nominal.
C16_Witness ==
    /\ Quiescent
    /\ 1 \in Live
    /\ publisher[1].status = "dropped"
    /\ Held(1) = {}
    /\ delivered[1] = None
    /\ last.kind = "aggregator"
    /\ last.written = Some(Nominal)
    /\ last.previous = Critical
    /\ health_tx[1] = Nominal
    /\ agg_health_tx = Nominal

\* C17: a changed() that completes successfully finds in the slot a value
\* other than the one its handle observed last.
C17_ChangedMeansNewValue ==
    (last.kind = "changed" /\ last.result = "ok") =>
        last.value # last.previous

\* C18: changed() on a Component or Aggregator handle returns an error only
\* when the worker has exited; while the worker runs the call stays pending
\* or completes with success.  A handle changed() can be called on keeps its
\* worker running, so the call in fact never fails.
C18_ErrOnlyAfterExit ==
    /\ last.kind = "changed" =>
          /\ last.result = "err" => last.closed
          /\ ~last.closed => last.result = "ok"
    /\ \A w \in Watched : HandleFree(w) => ~Closed(w)

\* changed() on the component's handle has just completed with Ok, a second
\* call on it would stay pending, and the aggregator's has a change to see.
C18_Witness ==
    /\ last.kind = "changed"
    /\ last.handle = 1
    /\ last.result = "ok"
    /\ worker[1] = "running"
    /\ HandleFree(1)
    /\ changed(obs.rx[1], Closed(1)) = "pending"
    /\ changed(obs.rx[AggregatorRx], Closed(AggregatorRx)) = "ok"

\* C19: a report request to a component whose mailbox can no longer be
\* upgraded yields an absent value at once: the aggregator sends that
\* component nothing and does not wait for it, and when no monitor is left
\* to ask, reports() completes with the reports gathered so far, the
\* component omitted and the worker still running.
C19_GoneComponentIsOmitted ==
    [][ (agg_worker = "gathering" /\ agg_worker' # "gathering") =>
           /\ \A c \in Components :
                 OtherSenders(c) = 0 =>
                    /\ component_rx'[c] = component_rx[c]
                    /\ ~(agg_worker' = "awaiting" /\ monitors[gather'.index] = c)
           /\ (\A i \in gather.index..Len(monitors) :
                   OtherSenders(monitors[i]) = 0) =>
                 /\ agg_worker' = "running"
                 /\ last'.reports = Some(gather.reports)
                 /\ calls'.reports = None ]_vars

\* reports() has completed without the report of a component that still was
\* in monitors: its last handle was dropped after the duds had been removed.
C19_Witness ==
    /\ last.kind = "aggregator"
    /\ last.reports = Some(<<>>)
    /\ monitors = <<1>>
    /\ OtherSenders(1) = 0
    /\ agg_worker = "running"

\* Every handle of a created component c is dropped, the drops completed.
HandlesGone(c) ==
    /\ worker[c] # "none"
    /\ component[c].handles = 0
    /\ component[c].dropping = 0

\* No publish call has upgraded c's mailbox and not sent yet, and the
\* aggregator does not await a report of c.
NoCallHoldsMailbox(c) ==
    /\ \A p \in Publishers :
          publisher[p].component = c => publisher[p].channel = <<>>
    /\ ~(agg_worker = "awaiting" /\ monitors[gather.index] = c)

C22_ComponentWorksWithoutAggregator ==
    aggregator_tx = 0 =>
        /\ agg_worker = "exited" => aggregator_rx = <<>>
        /\ last.kind = "component" =>
              /\ ~last.notified
              /\ last.published <=>
                    /\ last.send_update
                    /\ should_publish(last.new_state, last.health_state)
              /\ receiver_count(last.component) > 0 =>
                    health_tx[last.component] =
                       IF last.published THEN last.new_state
                       ELSE last.health_state
        /\ \A c \in Components :
              /\ component[c].handles > 0 => worker[c] = "running"
              /\ component_rx[c] # <<>> => worker[c] = "running"
              /\ (worker[c] = "running" /\ receiver_count(c) > 0) =>
                    /\ ~debouncer[c].timer_active =>
                          health_tx[c] = HighestSeverity(DeliveredCounts(c))
                    /\ debouncer[c].timer_active =>
                          debouncer[c].timer_remaining + since_msg[c]
                             <= ComponentDelay

\* After the aggregator worker has exited, a deferred update of a held
\* component has written Critical to the slot, and no notification was sent.
C22_Witness ==
    /\ aggregator_tx = 0
    /\ agg_worker = "exited"
    /\ aggregator_rx = <<>>
    /\ component[1].handles > 0
    /\ last.kind = "component"
    /\ last.component = 1
    /\ last.published
    /\ ~last.notified
    /\ last.health_state = Nominal
    /\ health_tx[1] = Critical

\* C23: while the worker of a component holds nominal signals only and the
\* health it published last is Nominal, no StartPublishing or StopPublishing
\* of a nominal signal it receives (a publisher created, cloned or dropped),
\* and no deferred update that follows, writes the component's slot or sends
\* anything to the aggregator.
C23_NominalChurnIsSilent ==
    [][ \A c \in Components :
          ( /\ worker[c] = "running"
            /\ health_state[c] = Nominal
            /\ HighestSeverity(component_state[c].counts) = Nominal
            /\ last'.kind = "component"
            /\ last'.component = c
            /\ \/ last'.type = "ready"
               \/ /\ last'.type \in {"StartPublishing", "StopPublishing"}
                  /\ Head(component_rx[c]).signal.state = Nominal )
          => /\ ~last'.published
             /\ ~last'.notified
             /\ health_tx'[c] = health_tx[c]
             /\ health_state'[c] = Nominal
             /\ aggregator_rx' = aggregator_rx
             /\ agg_health_tx' = agg_health_tx ]_vars

\* The StopPublishing of a dropped publisher that held a nominal signal has
\* fired the debouncer under a held Aggregator, and nothing was published.
C23_Witness ==
    /\ aggregator_tx > 0
    /\ last.kind = "component"
    /\ last.type = "StopPublishing"
    /\ last.send_update
    /\ last.new_state = Nominal
    /\ last.health_state = Nominal
    /\ ~last.published
    /\ Registered(last.component) = {}
    /\ health_tx[last.component] = Nominal

\* The values v and w are the same value: the same variant with the same
\* payload, a string by its characters.
SameValue(v, w) ==
    /\ v.type = w.type
    /\ v.n = w.n
    /\ as_str(v.string) = as_str(w.string)

\* C24: of two Attributes, partial_cmp is the ordering of the names and the
\* hashers are fed the names only: with equal names the attributes compare
\* Equal and hash alike whatever their values.  == holds only when both the
\* names and the values are equal: with equal names and different values
\* the attributes are unequal under == and yet compare Equal.
C24_OrderAndHashByNameOnly ==
    (obs.kind = "attributes" /\ obs.result # None) =>
        LET a == obs.a
            b == obs.b
            r == obs.result[1]
            same_name == as_str(a.name) = as_str(b.name)
        IN
        /\ r.partial_cmp = Some(str_cmp(as_str(a.name), as_str(b.name)))
        /\ same_name => r.partial_cmp = Some("Equal")
        /\ same_name => r.hash_a = r.hash_b
        /\ r.eq => same_name /\ SameValue(a.value, b.value)
        /\ (same_name /\ ~SameValue(a.value, b.value)) =>
              ~r.eq /\ r.partial_cmp = Some("Equal")

\* A static and a boxed name of the same characters with values of
\* different variants: unequal under ==, Equal under the ordering, hashed
\* alike.
C24_Witness ==
    /\ obs.kind = "attributes"
    /\ obs.result # None
    /\ obs.a.name = [variant |-> "Static", str |-> <<1, 2>>]
    /\ obs.b.name = [variant |-> "Boxed", str |-> <<1, 2>>]
    /\ obs.a.value.type = "Int"
    /\ obs.b.value.type = "Double"
    /\ obs.a.value.n = obs.b.value.n
    /\ ~obs.result[1].eq
    /\ obs.result[1].partial_cmp = Some("Equal")
    /\ obs.result[1].hash_a = obs.result[1].hash_b

\* C25: state() and make_report return the highest severity that has a
\* count above zero, Nominal if there is none; whenever a state is cached it
\* is that severity, and every add and remove leaves nothing cached.
C25_StateIsHighestCounted ==
    /\ cstate.state # None =>
          cstate.state[1] = HighestSeverity(cstate.counts)
    /\ cs_obs.op = "state" =>
          /\ cs_obs.result = HighestSeverity(cstate.counts)
          /\ cstate.state = Some(cs_obs.result)
    /\ cs_obs.op = "make_report" =>
          cs_obs.report.state = HighestSeverity(cstate.counts)
    /\ cs_obs.op \in {"add", "remove"} => cstate.state = None

\* state() has returned Critical with a Degraded signal counted as well.
C25_Witness ==
    /\ cs_obs.op = "state"
    /\ cs_obs.result = Critical
    /\ cstate.counts[Degraded] = 1
    /\ cstate.counts[Critical] = 1

\* C26: trigger() returns true exactly when at least debounce_delay has
\* passed since the last fire, and then records the fire and leaves no
\* timer active; otherwise it returns false with the timer active.  An
\* active timer always has the deadline last_fired + debounce_delay, so a
\* trigger() during a burst does not move a deadline that is armed.
C26_TimerDeadlineIsLastFiredPlusDelay ==
    /\ dbn.timer_active =>
          dbn.timer_remaining = dbn.debounce_delay - dbn.since_last_fired
    /\ dbn_obs.op = "trigger" =>
          /\ dbn_obs.fired <=> dbn_obs.gap >= dbn.debounce_delay
          /\ dbn_obs.fired =>
                ~dbn.timer_active /\ dbn.since_last_fired = 0
          /\ ~dbn_obs.fired => dbn.timer_active

\* A second deferred trigger() of a burst, some time after the first: the
\* timer still is due one debounce_delay after the last fire.
C26_Witness ==
    /\ dbn_obs.op = "trigger"
    /\ ~dbn_obs.fired
    /\ dbn_obs.was_pending
    /\ dbn_obs.gap > 1
    /\ dbn.timer_active
    /\ dbn.timer_remaining = dbn.debounce_delay - dbn_obs.gap
    /\ dbn.timer_remaining > 0

\* C27: a value the aggregator worker writes to the overall slot is the
\* highest value in the slots of the monitors it holds at that moment, and
\* Nominal when there is none above Nominal; the monitor of a component
\* whose worker has exited counts like any other.  (The step that writes
\* changes neither the monitors nor their slots.)  get_aggregate_health_state
\* by itself yields the highest of any list of up to MaxMonitors states.
AggregateIsMax ==
    \A states \in UNION {[1 .. n -> Health] : n \in 0 .. MaxMonitors} :
        LET overall == get_aggregate_health_state(states) IN
        /\ \A i \in 1 .. Len(states) : states[i] <= overall
        /\ overall = Nominal \/ \E i \in 1 .. Len(states) : states[i] = overall

WrittenIsMax ==
    (last.kind = "aggregator" /\ last.written # None) =>
        /\ agg_health_tx = last.written[1]
        /\ \A i \in 1 .. Len(monitors) :
              health_tx[monitors[i]] <= last.written[1]
        /\ \/ last.written[1] = Nominal
           \/ \E i \in 1 .. Len(monitors) :
                 health_tx[monitors[i]] = last.written[1]

C27_WrittenIsMaxOverMonitors == AggregateIsMax /\ []WrittenIsMax

\* The worker writes a value above Nominal that only the monitor of a
\* component whose worker has exited shows.
C27_Witness ==
    /\ last.kind = "aggregator"
    /\ last.written # None
    /\ last.written[1] > Nominal
    /\ \E i \in 1 .. Len(monitors) :
          /\ worker[monitors[i]] = "exited"
          /\ health_tx[monitors[i]] = last.written[1]
    /\ \A i \in 1 .. Len(monitors) :
          health_tx[monitors[i]] > Nominal => worker[monitors[i]] = "exited"

\* C28: the aggregator worker writes the overall slot in exactly the steps
\* in which its debouncer fires (trigger() returns true on
\* ComponentHealthChanged, or ready() completes), whether or not the value
\* differs from the one in the slot; no other step changes the slot.  The
\* write is the worker's send to the slot in each of these steps; it takes
\* effect while the Aggregator handle, which has the read end, exists.
\* A fire is seen on the debouncer itself: the time since the last fire
\* falls back to zero while the worker runs on.
AggregatorFires ==
    /\ agg_worker' = "running"
    /\ agg_debouncer.since_last_fired > 0
    /\ agg_debouncer'.since_last_fired = 0

C28_WritesExactlyOnFire ==
    [][/\ (AggregatorFires /\ receiver_count(AggregatorRx) > 0) <=>
            (last'.kind = "aggregator" /\ last'.written # None)
       /\ AggregatorFires =>
            /\ last'.kind = "aggregator"
            /\ last'.type \in {"ComponentHealthChanged", "ready"}
            /\ receiver_count(AggregatorRx) > 0 =>
                  agg_health_tx' = last'.written[1]
       /\ ~AggregatorFires => agg_health_tx' = agg_health_tx]_vars

\* The debouncer fires and the worker writes, above Nominal, the value the
\* slot held already.
C28_Witness ==
    /\ last.kind = "aggregator"
    /\ last.written # None
    /\ last.written[1] = last.previous
    /\ last.previous > Nominal
    /\ agg_debouncer.since_last_fired = 0

\* C29: a step in which the aggregator worker processes ComponentCreated or
\* ComponentDropped takes that message off the mailbox and changes the
\* monitor list, nothing else: the overall slot, the debouncer and all the
\* rest stay as they are.  ComponentCreated appends the monitor of the
\* message; ComponentDropped keeps, in their order, exactly the monitors
\* whose component mailbox has a strong sender (a handle, also one that is
\* being dropped, or a publisher in the middle of a send).
C29_OnlyMonitorListChanges ==
    [][(last'.kind = "aggregator"
        /\ last'.type \in {"ComponentCreated", "ComponentDropped"}) =>
          /\ aggregator_rx # <<>>
          /\ Head(aggregator_rx).type = last'.type
          /\ aggregator_rx' = Tail(aggregator_rx)
          /\ UNCHANGED <<agg_health_tx, agg_debouncer, agg_worker,
                         aggregator_tx, gather, compvars, publisher, delivered,
                         since_msg, calls, obs>>
          /\ last'.type = "ComponentCreated" =>
                monitors' = Append(monitors, Head(aggregator_rx).monitor)
          /\ last'.type = "ComponentDropped" =>
                monitors' =
                   SelectSeq(monitors,
                             LAMBDA m :
                                \/ component[m].handles > 0
                                \/ component[m].dropping > 0
                                \/ \E p \in Publishers :
                                      /\ publisher[p].component = m
                                      /\ publisher[p].channel # <<>>)]_vars

\* The worker has processed a ComponentDropped that took a monitor off the
\* list: the component's last handle was gone by then.
C29_Witness ==
    /\ last.kind = "aggregator"
    /\ last.type = "ComponentDropped"
    /\ last.removed = 1
    /\ monitors = <<>>

\* C30: components are numbered in the order of their registration.  The
\* monitors are in that order, each once; the reports of a reports() call,
\* those gathered so far and those returned, are of monitors of the list,
\* in the order of the list, each component at most once; and at most one
\* request of the aggregator is outstanding, at the monitor whose turn it
\* is, all reports before it being in.
Increasing(seq) ==
    \A i, j \in 1 .. Len(seq) : i < j => seq[i] < seq[j]

Names(reports) == [k \in 1 .. Len(reports) |-> reports[k].name]

OutstandingAt(c) ==
    {i \in 1 .. Len(component_rx[c]) :
        /\ component_rx[c][i].type = "GetReport"
        /\ component_rx[c][i].reply = "agg"}

C30_ReportsInRegistrationOrder ==
    /\ Increasing(monitors)
    /\ \A c \in AllComponents :
          OutstandingAt(c) # {} =>
              /\ Cardinality(OutstandingAt(c)) = 1
              /\ agg_worker = "awaiting"
              /\ gather.reply = None
              /\ monitors[gather.index] = c
    /\ agg_worker \in {"gathering", "awaiting"} =>
          /\ Increasing(Names(gather.reports))
          /\ \A k \in 1 .. Len(gather.reports) :
                \E i \in 1 .. Len(monitors) :
                   /\ i < gather.index
                   /\ monitors[i] = gather.reports[k].name
    /\ (last.kind = "aggregator" /\ last.reports # None) =>
          /\ Increasing(Names(last.reports[1]))
          /\ \A k \in 1 .. Len(last.reports[1]) :
                \E i \in 1 .. Len(monitors) :
                   monitors[i] = last.reports[1][k].name

\* reports() has returned the reports of the first and of the third
\* component, in this order; the second was gone.
C30_Witness ==
    /\ last.kind = "aggregator"
    /\ last.reports # None
    /\ Names(last.reports[1]) = <<1, 3>>

\* C31: whenever the next two messages of a component's mailbox are
\* messages of two different publishers, the worker ends with the same
\* counts and the same signals whichever of the two it processes first.
\* (Two interleavings that keep every publisher's order differ by such
\* exchanges, and every interleaving of the sends occurs.)
AfterMessage(c, cs, msg) ==
    component_message(cs, debouncer[c], msg).component_state

C31_InterleavingIsImmaterial ==
    \A c \in Components :
        (/\ worker[c] = "running"
         /\ Len(component_rx[c]) >= 2
         /\ component_rx[c][1].type \in PublisherMessages
         /\ component_rx[c][2].type \in PublisherMessages
         /\ component_rx[c][1].from # component_rx[c][2].from) =>
            LET m1 == component_rx[c][1]
                m2 == component_rx[c][2]
                cs == component_state[c]
                a == AfterMessage(c, AfterMessage(c, cs, m1), m2)
                b == AfterMessage(c, AfterMessage(c, cs, m2), m1)
            IN /\ a.counts = b.counts
               /\ a.signals = b.signals

\* Two publishers' changes of signal are next in the mailbox, one to the
\* signal the other leaves, and the worker's state after the first message
\* depends on which comes first.
C31_Witness ==
    \E c \in Components :
        /\ worker[c] = "running"
        /\ Len(component_rx[c]) >= 2
        /\ component_rx[c][1].type = "ChangeHealth"
        /\ component_rx[c][2].type = "ChangeHealth"
        /\ component_rx[c][1].from # component_rx[c][2].from
        /\ component_rx[c][1].new = component_rx[c][2].old
        /\ AfterMessage(c, component_state[c], component_rx[c][1]).counts
              # AfterMessage(c, component_state[c], component_rx[c][2]).counts

\* C32: the worker receives each publisher's messages in the publisher's
\* order: StartPublishing with the nominal signal while it holds nothing for
\* the publisher, ChangeHealth from the signal it holds for it, and
\* StopPublishing of the signal it holds for it.  So the signal it removes
\* is in the ComponentState at least once, and no count is ever below 0.
InProgramOrder(c) ==
    LET msg == Head(component_rx[c])
        cs == component_state[c]
        HeldOnce(g) == /\ delivered[msg.from] = Some(g)
                   /\ g \in DOMAIN cs.signals[g.state]
                   /\ cs.signals[g.state][g] >= 1
                   /\ cs.counts[g.state] >= 1
    IN CASE msg.type = "StartPublishing" ->
               delivered[msg.from] = None /\ msg.signal = NominalSignal
         [] msg.type = "ChangeHealth" -> HeldOnce(msg.old)
         [] msg.type = "StopPublishing" -> HeldOnce(msg.signal)

NoUnderflow ==
    \A c \in Components, i \in Health : component_state[c].counts[i] >= 0

C32_RemoveFindsItsSignal ==
    /\ []NoUnderflow
    /\ [][\A c \in Components :
            (/\ last'.kind = "component"
             /\ last'.component = c
             /\ last'.type \in PublisherMessages) => InProgramOrder(c)]_vars

\* The worker has processed the StopPublishing of a publisher that held
\* Critical, after every handle of the component was dropped.
C32_Witness ==
    \E c \in Components :
        /\ last.kind = "component"
        /\ last.component = c
        /\ last.type = "StopPublishing"
        /\ component[c].handles = 0
        /\ component[c].dropping = 0
        /\ \E p \in Publishers :
              /\ publisher[p].status = "dropped"
              /\ publisher[p].component = c
              /\ delivered[p] = None
        /\ \E p \in Publishers :
              /\ publisher[p].status = "live"
              /\ delivered[p] = Some(NewSignal(Critical, Attributes))

\* C33: a message leaves a component's mailbox only by being processed by
\* the worker: a publisher message is applied to the ComponentState, a
\* GetReport is answered with the report of that moment.  The worker exits
\* only with the mailbox closed and empty, so whatever was enqueued when the
\* last strong sender went has been processed by then; and with the mailbox
\* closed the worker does get there.
IsProperPrefix(s, t) == Len(s) < Len(t) /\ SubSeq(t, 1, Len(s)) = s

ProcessesHead(c) ==
    LET msg == Head(component_rx[c])
        r == component_message(component_state[c], debouncer[c], msg)
    IN /\ component_rx'[c] = Tail(component_rx[c])
       /\ worker[c] = "running"
       /\ last'.kind = "component"
       /\ last'.component = c
       /\ last'.type = msg.type
       /\ component_state'[c].counts = r.component_state.counts
       /\ component_state'[c].signals = r.component_state.signals
       /\ msg.type \in PublisherMessages => delivered'[msg.from] = msg.holds
       /\ msg.type = "GetReport" =>
             /\ last'.report = Some(make_report(component_state[c], msg.filter))
             /\ msg.reply = "agg" => gather'.reply = last'.report

C33_DrainsBeforeExit ==
    /\ [][\A c \in Components :
            /\ component_rx'[c] # component_rx[c] =>
                  \/ IsProperPrefix(component_rx[c], component_rx'[c])
                  \/ component_rx[c] # <<>> /\ ProcessesHead(c)
            /\ (worker[c] = "running" /\ worker'[c] = "exited") =>
                  /\ component_rx[c] = <<>>
                  /\ strong_count(c) = 0]_vars
    /\ [](\A c \in Components :
             worker[c] = "exited" => component_rx[c] = <<>>)
    /\ \A c \in Components :
          (worker[c] = "running" /\ strong_count(c) = 0)
             ~> (worker[c] = "exited" /\ component_rx[c] = <<>>)

\* The worker has processed a publisher's change to Critical with the
\* mailbox already closed: no handle is left and no sender is upgraded.
C33_Witness ==
    \E c \in Components :
        /\ last.kind = "component"
        /\ last.component = c
        /\ last.type = "ChangeHealth"
        /\ worker[c] = "running"
        /\ strong_count(c) = 0
        /\ \E p \in Publishers :
              /\ publisher[p].component = c
              /\ delivered[p] = Some(NewSignal(Critical, Attributes))

\* C34: a component has one worker and one monitor however many handles it
\* has.  While a handle is held the worker runs, the component's monitor (or
\* the ComponentCreated message that carries it) stays with a running
\* aggregator worker whatever ComponentDropped messages that one processes,
\* a publisher's change of signal is sent to the worker, and a reports() call
\* made and answered while a handle is held has the component's report.
Monitored(c) ==
    Cardinality({i \in 1 .. Len(monitors) : monitors[i] = c})
    + Cardinality({i \in 1 .. Len(aggregator_rx) :
                      /\ aggregator_rx[i].type = "ComponentCreated"
                      /\ aggregator_rx[i].monitor = c})

C34_ClonesShareWorkerAndMonitor ==
    /\ [](\A c \in Components :
             /\ Monitored(c) <= 1
             /\ component[c].handles > 0 =>
                   /\ worker[c] = "running"
                   /\ agg_worker # "exited" => Monitored(c) = 1
             /\ (/\ last.kind = "aggregator"
                 /\ last.reports # None
                 /\ c \in last.call.held
                 /\ component[c].handles > 0) =>
                   \E k \in 1 .. Len(last.reports[1]) :
                      last.reports[1][k].name = c)
    /\ [][\A c \in Components :
            /\ component'[c].handles > component[c].handles =>
                  (worker[c] # "none" =>
                      UNCHANGED <<worker, monitors, aggregator_rx,
                                  component_rx>>)
            /\ \A p \in Publishers :
                  (/\ component[c].handles > 0
                   /\ publisher[p].component = c
                   /\ publisher[p].status = "live"
                   /\ publisher'[p].signal # publisher[p].signal) =>
                     publisher'[p].channel # <<>>]_vars

\* One of two handles was dropped and the aggregator has processed its
\* ComponentDropped: the monitor is kept, the other handle is held.
C34_Witness ==
    \E c \in Components :
        /\ last.kind = "aggregator"
        /\ last.type = "ComponentDropped"
        /\ last.removed = 0
        /\ \E i \in 1 .. Len(monitors) : monitors[i] = c
        /\ component[c].handles = 1
        /\ component[c].dropping = 0
        /\ worker[c] = "running"

\* C35: once the only handle of a component is dropped and the aggregator,
\* whose handle the application still holds, has processed the
\* ComponentDropped that the drop sent (it was sent, the Aggregator being
\* there, and none is left in the mailbox), the monitor list does not hold
\* that component's monitor.
C35_MonitorGoneOnceDropProcessed ==
    \A c \in Components :
        (/\ worker[c] # "none"
         /\ component[c].handles = 0
         /\ component[c].dropping = 0
         /\ aggregator_tx > 0
         /\ \A i \in 1 .. Len(aggregator_rx) :
               aggregator_rx[i].type # "ComponentDropped") =>
            \A i \in 1 .. Len(monitors) : monitors[i] # c

\* C36: an iteration of a component worker that publishes writes the new
\* health to the slot (which has a read end) and sends at most one
\* ComponentHealthChanged, and an iteration that does not publish sends
\* none; so whenever a ComponentHealthChanged is in the aggregator mailbox,
\* and when the aggregator processes it, the slot behind the monitor of the
\* component holds the health the worker published last, which is the one
\* that caused the notification or a later one: the slot changes in a
\* publishing iteration only, and it is the worker's health_state as long
\* as the worker runs.
Notifications(q) ==
    Cardinality({i \in 1 .. Len(q) : q[i].type = "ComponentHealthChanged"})

SlotIsLastPublished(c) == health_tx[c] = health_state[c]

FromComponent == {"ComponentHealthChanged", "ComponentDropped"}

FirstInFirstOut(q, r) ==
    \/ r = q
    \/ q # <<>> /\ r = Tail(q)
    \/ Len(r) = Len(q) + 1 /\ SubSeq(r, 1, Len(q)) = q

CreatedIsAhead(c) ==
    \A i, j \in 1 .. Len(aggregator_rx) :
        (/\ aggregator_rx[i].type = "ComponentCreated"
         /\ aggregator_rx[i].monitor = c
         /\ aggregator_rx[j].type \in FromComponent) => i < j

WasPushed(c) ==
    \/ \E i \in 1 .. Len(monitors) : monitors[i] = c
    \/ strong_count(c) = 0

SoleComponent(c) == \A b \in AllComponents \ {c} : worker[b] = "none"

C37_CreatedBeforeNotifications ==
    /\ [][FirstInFirstOut(aggregator_rx, aggregator_rx')]_vars
    /\ [][\A c \in Components :
             (/\ Len(aggregator_rx') = Len(aggregator_rx) + 1
              /\ aggregator_rx'[Len(aggregator_rx')].type \in FromComponent
              /\ \/ last'.kind = "component" /\ last'.component = c
                 \/ component'[c].dropping > component[c].dropping) =>
                 /\ worker[c] # "none"
                 /\ Monitored(c) = 1 \/ strong_count(c) = 0]_vars
    /\ [](\A c \in Components :
             SoleComponent(c) =>
                 /\ CreatedIsAhead(c)
                 /\ worker[c] = "none" =>
                        \A i \in 1 .. Len(aggregator_rx) :
                            aggregator_rx[i].type \notin FromComponent)
    /\ [][\A c \in Components :
             (/\ SoleComponent(c)
              /\ last'.kind = "aggregator"
              /\ last'.type \in FromComponent) =>
                 /\ worker[c] # "none"
                 /\ Monitored(c) = Cardinality({i \in 1 .. Len(monitors) :
                                                   monitors[i] = c})
                 /\ WasPushed(c)]_vars

C37_Witness ==
    /\ last.kind = "aggregator"
    /\ last.type = "ComponentHealthChanged"
    /\ last.written # None
    /\ last.written[1] > Nominal
    /\ agg_debouncer.since_last_fired = 0
    /\ \E c \in Components :
          /\ strong_count(c) > 0
          /\ \E i \in 1 .. Len(monitors) : monitors[i] = c

\* C38: while a component worker runs, the sum of its five counts is the
\* number of publishers whose StartPublishing it has processed and whose
\* StopPublishing it has not; processing a ChangeHealth leaves the sum as it
\* is, a StartPublishing adds one to it and a StopPublishing takes one off.
SumOfCounts(c) == Total(component_state[c].counts)

SumAfter(type, sum) ==
    CASE type = "StartPublishing" -> sum + 1
      [] type = "StopPublishing" -> sum - 1
      [] OTHER -> sum

C38_SumOfCountsIsPublishers ==
    /\ [](\A c \in Components :
             worker[c] = "running" =>
                 SumOfCounts(c) = Cardinality(Registered(c)))
    /\ [][\A c \in Components :
             (/\ last'.kind = "component"
              /\ last'.component = c
              /\ worker'[c] = "running") =>
                 SumOfCounts(c)' = SumAfter(last'.type, SumOfCounts(c))]_vars

C38_Witness ==
    \E c \in Components :
        /\ last.kind = "component"
        /\ last.component = c
        /\ last.type = "ChangeHealth"
        /\ worker[c] = "running"
        /\ SumOfCounts(c) = 2
        /\ Cardinality(Registered(c)) = 2
        /\ component_state[c].counts[Nominal] = 0

\* C39: a reports() call is eventually answered and the aggregator worker
\* eventually leaves the gathering, whatever the application does with the
\* publishers and the handles meanwhile; while the aggregator awaits the
\* report of a component, that component's worker runs, its mailbox is held
\* open by the aggregator's own sender, and the request is in the mailbox or
\* the reply is there.
Awaited == monitors[gather.index]

RequestOrReply ==
    \/ gather.reply # None
    \/ \E i \in 1 .. Len(component_rx[Awaited]) :
          /\ component_rx[Awaited][i].type = "GetReport"
          /\ component_rx[Awaited][i].reply = "agg"

C39_ReportsAreAnswered ==
    /\ (calls.reports # None) ~> (calls.reports = None)
    /\ (agg_worker \in {"gathering", "awaiting"}) ~> (agg_worker = "running")
    /\ [](agg_worker = "awaiting" =>
             /\ gather.index \in 1 .. Len(monitors)
             /\ worker[Awaited] = "running"
             /\ strong_count(Awaited) > OtherSenders(Awaited)
             /\ RequestOrReply)
    /\ [](agg_worker \in {"gathering", "awaiting"} => calls.reports # None)

C39_Witness ==
    /\ last.kind = "aggregator"
    /\ last.type = "GetReport"
    /\ last.reports # None
    /\ Len(last.reports[1]) = 1
    /\ calls.reports = None
    /\ agg_worker = "running"
    /\ \E c \in Components :
          /\ c \in last.call.held
          /\ component[c].handles = 0
          /\ \E p \in Publishers :
                publisher[p].component = c /\ publisher[p].status = "live"

====
